---- MODULE Spec2Model ----
(***************************************************************************)
(* A state-machine model of the DataTable widget (DataTable.tsx) and of    *)
(* its virtualized body (VirtualizedTableBody.tsx).                        *)
(*                                                                         *)
(* The remote loaders (useGetPaginatedData, useInfiniteData), the delete   *)
(* mutation (useDeleteData), the InfiniteScroll sentinel and the windowing *)
(* library (useVirtualizer) are collaborators whose code is not part of    *)
(* the sources; they are modelled at their interface, as the specification *)
(* describes them.                                                         *)
(*                                                                         *)
(* The saved views of a table are modelled too: the hook useTableViews,    *)
(* the page that holds the table and its modals (ListeMondeWithViews,      *)
(* ViewSaveModal), the client-side validation of types/table-views.ts and  *)
(* the ViewSelector.  The query cache (React Query) and the server of the  *)
(* views are modelled at their interface.                                  *)
(***************************************************************************)
EXTENDS Integers, Sequences, FiniteSets, TLC

(***************************************************************************)
(* Bounds of the model                                                     *)
(***************************************************************************)
\* pages a paged fetch can report (Pagination offers 1..MaxPage)
MaxPage == 2
\* rows the server returns to the DataTable in the table specifications
MaxRows == 2
\* rows the incremental loader can accumulate in the body specification
MaxItems == 4
\* timers the event loop can hold at once
MaxTimers == 2
\* next-page requests counted as outstanding at once
MaxPending == 2
\* keystrokes counted in one burst of typing
MaxKeystrokes == 3
\* row indices and row counts given to the functions of the body
MaxIndex == 3
\* characters in an exported field
MaxFieldLen == 2
\* the views a user keeps for one table
MaxViews == 2
\* the views the ViewSelector is given
MaxListed == 6

(***************************************************************************)
(* Program constants                                                       *)
(***************************************************************************)
\* defaultPageSize = 10
DefaultPageSize == 10
\* setTimeout(..., 1500) of the position indicator
HideDelay == 1500
\* visible={showIndicator && data.length > 50}
IndicatorMinRows == 50
\* data.name.length > 50
MaxNameLength == 50
\* data.visibleColumns.length > 20
MaxVisibleColumns == 20
\* views.length > 5: the search box of the ViewSelector
SearchBoxMinViews == 5

Undefined == "undefined"

PaginationModes == {"page", "infinite", "virtualized"}

\* pageSizeOptions = [5, 10, 20, 50, 100], cut to two options
pageSizeOptions == {5, 10}

(***************************************************************************)
(* The caller-supplied column configuration (ColumnConfig[]): one          *)
(* instance with a column hidden by default and a nested key path.         *)
(***************************************************************************)
columns ==
  << [key |-> "id",       defaultVisible |-> Undefined, width |-> 80,
      sortable |-> TRUE,  filterable |-> FALSE],
     [key |-> "nom",      defaultVisible |-> "true",    width |-> 0,
      sortable |-> TRUE,  filterable |-> TRUE],
     [key |-> "user.nom", defaultVisible |-> "false",   width |-> 0,
      sortable |-> FALSE, filterable |-> TRUE] >>

ColumnKeys == {columns[i].key : i \in DOMAIN columns}

\* widths a drag of the resize handle can produce
ResizeWidths == {120}

\* texts typed into a column filter, as sequences of characters
FilterTexts == { <<>>, <<" ">>, <<"a">>, <<" ", "a", " ">>, <<"b">> }

\* advanced filter groups the builder can produce
FilterGroups == {"g1"}

VARIABLES
  paginationMode,      \* prop paginationMode
  columnSettings,      \* useState<ColumnState[]>
  columnFilters,       \* useState<Record<string,string>>
  userComplexFilters,  \* useState<FilterGroup | undefined>
  sortConfig,          \* useState<SortConfig | undefined>
  paginationParams,    \* useState<PaginationParams>
  status,              \* selected loader: "loading" | "error" | "ready"
  data,                \* selected loader: ids of the loaded items
  hasNextPage,         \* infiniteQuery.hasNextPage
  isFetchingNextPage,  \* infiniteQuery.isFetchingNextPage
  totalItems,          \* infiniteQuery.totalItems: rows the server reports
  pendingNext,         \* next-page fetches requested and not yet settled
  fetchIssued,         \* the last step started a fetch (new key or refetch)
  deleting,            \* deleteAuth: id of the delete in flight, 0 if none
  lastConfirm,         \* outcome of the last confirm() dialog
  lastOp,              \* name of the last handler that ran
  before,              \* page, number of loaded rows (and, for a reset, whether the
                       \* columns had been changed) before the last step
  cfg,                 \* virtualizationConfig (Required<VirtualizationConfig>)
  scrollOffset,        \* scrollTop of the body's scroll container
  nearEnd,             \* what the near-end effect saw and did when it last ran
  listenerAttached,    \* the scroll listener sits on the mounted scroll container
  mounted,             \* the virtualized body is mounted
  showIndicator,       \* useState(false)
  indicatorTimeoutRef, \* useRef<Timeout | null>: timer id, 0 if null
  timers,              \* pending timeouts: id -> remaining delay, -1 if none
  sinceScroll,         \* time since the last scroll event, capped at HideDelay
  filterDraft,         \* TableFilters: text typed and not yet handed over
  debounceLeft,        \* TableFilters: time left before the hand-over, -1 if none
  keystrokes,          \* TableFilters: keystrokes of the current burst (capped)
  call,                \* a function of the code and the arguments it is given
  result,              \* what the function returned, once it has run
  prefetched,          \* useTablePrefetch: the rows whose detail was prefetched
  serverViews,         \* the saved views the server holds for the user
  viewsQuery,          \* useTableViews: the query of the view list
  currentView,         \* useTableViews: useState<TableView | null>
  hasUnsavedChanges,   \* useTableViews: useState(false)
  defaultApplied,      \* useTableViews: useState(false)
  notified,            \* the last argument given to onViewChange
  visibleColumnKeys,   \* ListeMondeWithViews: useState<string[]>
  mutation,            \* useTableViews: the create/update/delete request in flight
  modal,               \* ListeMondeWithViews: the open save or delete modal
  selector             \* ViewSelector: isOpen, searchTerm and the views prop

tableVars == <<paginationMode, columnSettings, columnFilters, userComplexFilters,
               sortConfig, paginationParams>>
loaderVars == <<status, data, hasNextPage, isFetchingNextPage, totalItems,
                pendingNext>>
deleteVars == <<deleting, lastConfirm>>
bodyVars == <<cfg, scrollOffset, nearEnd, listenerAttached, mounted>>
indicatorVars == <<showIndicator, indicatorTimeoutRef, timers, sinceScroll>>
callVars == <<call, result>>
typingVars == <<filterDraft, debounceLeft, keystrokes>>
hookVars == <<serverViews, viewsQuery, currentView, hasUnsavedChanges, defaultApplied,
              notified, visibleColumnKeys, mutation, modal>>
viewVars == <<hookVars, selector>>
inputVars == <<typingVars, callVars, prefetched, viewVars>>
vars == <<tableVars, loaderVars, fetchIssued, deleteVars, lastOp, before, bodyVars,
          indicatorVars, inputVars>>

(***************************************************************************)
(* Helpers: arrays                                                         *)
(***************************************************************************)
Min(a, b) == IF a <= b THEN a ELSE b
Max(a, b) == IF a >= b THEN a ELSE b

\* Array.prototype.splice(i, 1) at the 1-based position i
RemoveAt(s, i) == [j \in 1..(Len(s) - 1) |-> IF j < i THEN s[j] ELSE s[j + 1]]

\* Array.prototype.splice(i, 0, x): x ends at the 1-based position i, or at
\* the end when i is past it
InsertAt(s, i, x) ==
  LET p == Min(i, Len(s) + 1)
  IN  [j \in 1..(Len(s) + 1) |->
         IF j < p THEN s[j] ELSE IF j = p THEN x ELSE s[j - 1]]

\* insertion of x into a list sorted by order, after the elements that do not
\* come later (a stable sort)
RECURSIVE InsertByOrder(_, _)
InsertByOrder(s, x) ==
  IF s = <<>> THEN <<x>>
  ELSE IF s[Len(s)].order <= x.order THEN Append(s, x)
  ELSE Append(InsertByOrder(SubSeq(s, 1, Len(s) - 1), x), s[Len(s)])

\* [...prev].sort((a, b) => a.order - b.order)
RECURSIVE SortByOrder(_)
SortByOrder(s) ==
  IF s = <<>> THEN <<>>
  ELSE InsertByOrder(SortByOrder(SubSeq(s, 1, Len(s) - 1)), s[Len(s)])

\* findIndex(col => col.key === key): 1-based, 0 when absent (-1 in the code)
FindIndex(s, key) ==
  IF \E i \in DOMAIN s : s[i].key = key
  THEN CHOOSE i \in DOMAIN s : s[i].key = key /\ \A j \in 1..(i - 1) : s[j].key # key
  ELSE 0

\* newSettings.map((col, index) => ({ ...col, order: index }))
Renumber(s) == [i \in DOMAIN s |-> [s[i] EXCEPT !.order = i - 1]]

\* Array.prototype.filter
RECURSIVE FilterVisible(_)
FilterVisible(s) ==
  IF s = <<>> THEN <<>>
  ELSE IF s[1].visible THEN <<s[1]>> \o FilterVisible(Tail(s))
  ELSE FilterVisible(Tail(s))

(***************************************************************************)
(* Helpers: String.prototype.trim on a sequence of characters              *)
(***************************************************************************)
RECURSIVE TrimStart(_)
TrimStart(t) == IF t # <<>> /\ t[1] = " " THEN TrimStart(Tail(t)) ELSE t

RECURSIVE TrimEnd(_)
TrimEnd(t) ==
  IF t # <<>> /\ t[Len(t)] = " " THEN TrimEnd(SubSeq(t, 1, Len(t) - 1)) ELSE t

Trim(t) == TrimEnd(TrimStart(t))

(***************************************************************************)
(* DataTable: column state                                                 *)
(***************************************************************************)
\* columns.map((col, index) => ({...col, visible: col.defaultVisible !== false,
\*                               order: index, width: col.width}))
InitialColumnSettings ==
  [i \in DOMAIN columns |->
     [key |-> columns[i].key,
      visible |-> (columns[i].defaultVisible # "false"),
      order |-> i - 1,
      width |-> columns[i].width]]

\* COLUMNS_CONFIG.filter(col => col.defaultVisible !== false).map(col => col.key)
DefaultVisibleKeys ==
  LET shown == SelectSeq(columns, LAMBDA col : col.defaultVisible # "false")
  IN  [i \in DOMAIN shown |-> shown[i].key]

\* visibleColumns: columnSettings.filter(col => col.visible).sort(by order)
visibleColumns == SortByOrder(FilterVisible(columnSettings))

VisibleKeys == {visibleColumns[i].key : i \in DOMAIN visibleColumns}

\* toggleColumnVisibility: the state updater
ToggleVisibility(prev, key) ==
  [i \in DOMAIN prev |->
     IF prev[i].key = key THEN [prev[i] EXCEPT !.visible = ~prev[i].visible]
     ELSE prev[i]]

\* moveColumn with the orders left as they were, the moved column given the
\* target position
MoveColumnNoRenumber(prev, key, direction) ==
  LET sortedSettings == SortByOrder(prev)
      currentIndex == FindIndex(sortedSettings, key)
      targetIndex == IF direction = "up" THEN currentIndex - 1 ELSE currentIndex + 1
  IN  IF currentIndex = 0 THEN prev
      ELSE IF targetIndex < 1 \/ targetIndex > Len(sortedSettings) THEN prev
      ELSE [i \in DOMAIN prev |->
              IF prev[i].key = key THEN [prev[i] EXCEPT !.order = targetIndex - 1]
              ELSE prev[i]]

\* moveColumn: the state updater
MoveColumn(prev, key, direction) ==
  LET sortedSettings == SortByOrder(prev)
      currentIndex == FindIndex(sortedSettings, key)
      targetIndex == IF direction = "up" THEN currentIndex - 1 ELSE currentIndex + 1
  IN  IF currentIndex = 0 THEN prev
      ELSE IF targetIndex < 1 \/ targetIndex > Len(sortedSettings) THEN prev
      ELSE Renumber(InsertAt(RemoveAt(sortedSettings, currentIndex), targetIndex,
                             sortedSettings[currentIndex]))

\* handleColumnResize: the state updater
ResizeColumn(prev, key, width) ==
  [i \in DOMAIN prev |->
     IF prev[i].key = key THEN [prev[i] EXCEPT !.width = width] ELSE prev[i]]

\* handleColumnReorder: the state updater
ReorderColumn(prev, dragKey, dropKey) ==
  LET sortedSettings == SortByOrder(prev)
      dragIndex == FindIndex(sortedSettings, dragKey)
      dropIndex == FindIndex(sortedSettings, dropKey)
  IN  IF dragIndex = 0 \/ dropIndex = 0 THEN prev
      ELSE Renumber(InsertAt(RemoveAt(sortedSettings, dragIndex), dropIndex,
                             sortedSettings[dragIndex]))

\* resetColumns: the new state
\* a reset of the visibility alone
ResetVisibilityOnly ==
  [i \in DOMAIN columnSettings |->
     [columnSettings[i] EXCEPT
        !.visible = \A j \in DOMAIN columns :
                      (columns[j].key = columnSettings[i].key)
                        => (columns[j].defaultVisible # "false")]]

ResetColumns == InitialColumnSettings

(***************************************************************************)
(* DataTable: filters, sort and request parameters                         *)
(***************************************************************************)
NoSort == [key |-> Undefined, direction |-> Undefined]

SortableKeys == {columns[i].key : i \in {j \in DOMAIN columns : columns[j].sortable}}
FilterableKeys == {columns[i].key : i \in {j \in DOMAIN columns : columns[j].filterable}}

\* the defaultSort props the model is created with
DefaultSorts == {NoSort, [key |-> "id", direction |-> "ASC"]}

\* useState<PaginationParams>({page: 1, limit: defaultPageSize, filters: {}, ...})
InitialPaginationParams(defaultSort) ==
  [page |-> 1, limit |-> DefaultPageSize, filters |-> <<>>,
   sortBy |-> defaultSort.key, sortOrder |-> defaultSort.direction]

\* handleColumnFilterChange: the state updater
SetColumnFilter(prev, columnKey, value) ==
  IF Trim(value) = <<>>
  THEN [k \in (DOMAIN prev) \ {columnKey} |-> prev[k]]
  ELSE [k \in (DOMAIN prev) \cup {columnKey} |->
          IF k = columnKey THEN Trim(value) ELSE prev[k]]

\* effect on [columnFilters]: filters copied into the parameters, page 1
FilterSync(prev, filters) == [prev EXCEPT !.filters = filters, !.page = 1]

\* the sort effect leaving the parameters as they were
SortSyncNotApplied(prev, sort) == prev

\* the sort effect with the page left where it was
SortSyncKeepPage(prev, sort) ==
  [prev EXCEPT !.sortBy = sort.key, !.sortOrder = sort.direction]

\* effect on [sortConfig]: sort copied into the parameters, page 1
SortSync(prev, sort) ==
  [prev EXCEPT !.sortBy = sort.key, !.sortOrder = sort.direction, !.page = 1]

\* handleUserComplexFiltersChange: setPaginationParams(prev => ({...prev, page: 1}))
ComplexFilterSync(prev) == [prev EXCEPT !.page = 1]

\* Object.keys(columnFilters).length > 0
hasActiveFilters == DOMAIN columnFilters # {}

\* a cache key that also holds the column state
cacheKeyWithColumns == <<paginationParams, userComplexFilters, columnSettings>>

\* cacheKey of the paged query (the props in it never change)
cacheKey == <<paginationParams, userComplexFilters>>

\* the parameters and options handed to useInfiniteData
infiniteParams ==
  << [limit |-> paginationParams.limit, filters |-> paginationParams.filters,
      sortBy |-> paginationParams.sortBy, sortOrder |-> paginationParams.sortOrder],
     userComplexFilters >>

isInfiniteMode == paginationMode = "infinite"

\* the query whose data the table shows
SelectedKey == IF isInfiniteMode THEN infiniteParams ELSE cacheKey

\* the sort and filter part of the request the selected query sends
SortFilterOf(p, complex) == <<p.filters, p.sortBy, p.sortOrder, complex>>

(***************************************************************************)
(* The loaders, at their interface                                         *)
(***************************************************************************)
RowIds(cap) == 1..cap

\* a fresh Load State: nothing loaded, first page being fetched
FreshLoadState ==
  /\ status' = "loading"
  /\ data' = {}
  /\ hasNextPage' = FALSE
  /\ isFetchingNextPage' = FALSE
  /\ totalItems' = 0
  /\ pendingNext' = 0

\* the dependencies of the effect that calls resetPrefetchCache()
PrefetchDeps ==
  <<paginationParams.page, paginationParams.limit, columnFilters, userComplexFilters>>

\* useEffect(() => { resetPrefetchCache() }, [page, limit, columnFilters,
\* userComplexFilters, resetPrefetchCache])
PrefetchSync ==
  prefetched' = IF PrefetchDeps' # PrefetchDeps THEN {} ELSE prefetched

\* a render with changed query parameters starts a new query
LoaderSync ==
  IF SelectedKey' # SelectedKey
  THEN FreshLoadState /\ fetchIssued' = TRUE
  ELSE UNCHANGED loaderVars /\ fetchIssued' = FALSE

(***************************************************************************)
(* DataTable: what a render shows                                          *)
(***************************************************************************)
isLoading == status = "loading"
error == status = "error"

ShowsSpinner == isLoading
ShowsError == ~isLoading /\ error
MainRendered == ~isLoading /\ ~error

\* the filtered message tested on the column filters alone
ShowsEmptyFilteredColumnsOnly ==
  MainRendered /\ Cardinality(data) = 0 /\ hasActiveFilters

\* !data.length && (hasActiveFilters || userComplexFilters)
ShowsEmptyFiltered ==
  MainRendered /\ Cardinality(data) = 0
  /\ (hasActiveFilters \/ userComplexFilters # Undefined)

\* !data.length && !hasActiveFilters && !userComplexFilters
ShowsEmptyUnfiltered ==
  MainRendered /\ Cardinality(data) = 0
  /\ ~hasActiveFilters /\ userComplexFilters = Undefined

\* data.length > 0 && <table>
ShowsTable == MainRendered /\ Cardinality(data) > 0

ShowsInfiniteScroll == ShowsTable /\ isInfiniteMode

ShowsPagination == MainRendered /\ ~isInfiniteMode /\ Cardinality(data) > 0

\* the list a mounted DataTable renders
RenderStrategy == IF isInfiniteMode THEN "Incremental" ELSE "Paged"

(***************************************************************************)
(* Initial states                                                          *)
(***************************************************************************)
\* DEFAULT_VIRTUALIZATION_CONFIG
DEFAULT_VIRTUALIZATION_CONFIG ==
  [rowHeight |-> 48, overscan |-> 5, containerHeight |-> 600, scrollThreshold |-> 10,
   showScrollIndicator |-> TRUE]

\* virtualizationConfig values a caller passes for a short list: one row of
\* height 2 fits the container
BodyConfigs ==
  {[rowHeight |-> 2, overscan |-> o, containerHeight |-> 2, scrollThreshold |-> 1,
    showScrollIndicator |-> FALSE] : o \in {0, 1}}

\* virtualizationConfig values a caller passes for a long list
IndicatorConfigs ==
  {[DEFAULT_VIRTUALIZATION_CONFIG EXCEPT !.showScrollIndicator = b] : b \in BOOLEAN}

\* numbers of rows around the threshold of the position indicator
IndicatorRowCounts == {0, IndicatorMinRows, IndicatorMinRows + 1}

\* TableFilters: nothing typed is waiting
NoDraft == [key |-> Undefined, text |-> <<>>]

NoEffect ==
  [ran |-> FALSE, hasMore |-> FALSE, isLoadingMore |-> FALSE, endIndex |-> 0,
   itemCount |-> 0, threshold |-> 0, called |-> FALSE]

NoTimers == [id \in 1..MaxTimers |-> -1]

\* no function is being looked at
NotComputed == [done |-> FALSE]

NoCall ==
  /\ call = [fn |-> "none"]
  /\ result = NotComputed

Returned(value) == [done |-> TRUE, value |-> value]

\* currentView === null: "Toutes les colonnes"
NoView == [id |-> 0]

\* onViewChange was never called
NeverNotified == [id |-> -1]

NoMutation == [kind |-> "none"]
NoModal == [mode |-> "closed"]

\* ViewSelector as constructed: useState(false), useState('')
ClosedSelector(listed) == [isOpen |-> FALSE, searchTerm |-> <<>>, views |-> listed]

\* no views feature around the table
NoHook ==
  /\ serverViews = {}
  /\ viewsQuery = [enabled |-> FALSE, status |-> "idle", data |-> {}, fetching |-> FALSE]
  /\ currentView = NoView
  /\ hasUnsavedChanges = FALSE
  /\ defaultApplied = TRUE
  /\ notified = NeverNotified
  /\ visibleColumnKeys = <<>>
  /\ mutation = NoMutation
  /\ modal = NoModal

NoViews == NoHook /\ selector = ClosedSelector({})

\* the views the server holds when the page opens
StoredAtOpen(id, isDefault) ==
  [id |-> id, name |-> IF id = 1 THEN <<"v">> ELSE <<"w">>,
   visibleColumns |-> IF id = 1 THEN <<"id">> ELSE <<"nom">>, isDefault |-> isDefault]

InitialServerViews ==
  {{}, {StoredAtOpen(1, FALSE)}, {StoredAtOpen(1, TRUE), StoredAtOpen(2, FALSE)}}

\* the page after its first render and effects: an enabled query is
\* loading; a disabled one is idle and the default-view effect has run
InitViews ==
  /\ serverViews \in InitialServerViews
  /\ \E enabled \in BOOLEAN :
       /\ viewsQuery = [enabled |-> enabled,
                        status |-> IF enabled THEN "loading" ELSE "idle",
                        data |-> {}, fetching |-> enabled]
       /\ defaultApplied = ~enabled
  /\ currentView = NoView
  /\ hasUnsavedChanges = FALSE
  /\ notified = NeverNotified
  /\ visibleColumnKeys = DefaultVisibleKeys
  /\ mutation = NoMutation
  /\ modal = NoModal
  /\ selector = ClosedSelector({})

\* a mounted DataTable: state as constructed
InitWidget(modes) ==
  /\ paginationMode \in modes
  /\ columnSettings = InitialColumnSettings
  /\ columnFilters = <<>>
  /\ userComplexFilters = Undefined
  /\ sortConfig \in DefaultSorts
  /\ paginationParams = InitialPaginationParams(sortConfig)
  /\ deleting = 0
  /\ lastConfirm = "none"
  /\ lastOp = "mount"
  /\ before = [page |-> 1, loaded |-> 0, columnsChanged |-> FALSE]
  /\ filterDraft = NoDraft
  /\ debounceLeft = -1
  /\ keystrokes = 0
  /\ prefetched = {}

\* the loader at mount: the first fetch is under way
InitLoader ==
  /\ status = "loading"
  /\ data = {}
  /\ hasNextPage = FALSE
  /\ isFetchingNextPage = FALSE
  /\ totalItems = 0
  /\ pendingNext = 0
  /\ fetchIssued = TRUE

\* a caller that mounts the body with rows it already holds
InitLoaded(counts) ==
  /\ status = "ready"
  /\ \E n \in counts : data = 1..n /\ totalItems = n
  /\ hasNextPage = FALSE
  /\ isFetchingNextPage = FALSE
  /\ pendingNext = 0
  /\ fetchIssued = FALSE

\* a mounted virtualized body: nothing scrolled, no effect has fired
InitBody(configs) ==
  /\ cfg \in configs
  /\ scrollOffset = 0
  /\ nearEnd = NoEffect
  /\ listenerAttached = (Cardinality(data) > 0)
  /\ mounted = TRUE

InitIndicator ==
  /\ showIndicator = FALSE
  /\ indicatorTimeoutRef = 0
  /\ timers = NoTimers
  /\ sinceScroll = HideDelay

Init ==
  /\ InitWidget(PaginationModes)
  /\ InitLoader
  /\ InitBody({DEFAULT_VIRTUALIZATION_CONFIG})
  /\ InitIndicator
  /\ NoViews
  /\ NoCall

(***************************************************************************)
(* DataTable: the handlers, each with the effects and the render it causes *)
(***************************************************************************)
otherVars == <<deleteVars, bodyVars, indicatorVars, typingVars, callVars, viewVars>>

\* the step's record of the handler that ran and of the state it ran in
Ran(op) ==
  /\ lastOp' = op
  /\ before' = [page |-> paginationParams.page, loaded |-> Cardinality(data),
                 columnsChanged |-> (op = "resetColumns"
                                     /\ columnSettings # InitialColumnSettings)]

\* TableHeader onSort -> handleSort, then the effect on [sortConfig]
handleSort(key, direction) ==
  /\ ShowsTable
  /\ key \in SortableKeys \cap VisibleKeys
  /\ sortConfig' = [key |-> key, direction |-> direction]
  /\ paginationParams' = SortSync(paginationParams, sortConfig')
  /\ UNCHANGED <<paginationMode, columnSettings, columnFilters, userComplexFilters>>
  /\ LoaderSync
  /\ PrefetchSync
  /\ Ran("handleSort")
  /\ UNCHANGED otherVars

\* TableFilters onFilterChange -> handleColumnFilterChange, then the effect
\* on [columnFilters]
ColumnFilterChange(columnKey, value) ==
  /\ MainRendered
  /\ columnKey \in FilterableKeys
  /\ columnFilters' = SetColumnFilter(columnFilters, columnKey, value)
  /\ paginationParams' = FilterSync(paginationParams, columnFilters')
  /\ UNCHANGED <<paginationMode, columnSettings, userComplexFilters, sortConfig>>
  /\ LoaderSync
  /\ PrefetchSync
  /\ UNCHANGED <<deleteVars, bodyVars, indicatorVars>>

\* onFilterChange called by TableFilters
handleColumnFilterChange(columnKey, value) ==
  /\ ColumnFilterChange(columnKey, value)
  /\ Ran("handleColumnFilterChange")
  /\ UNCHANGED <<typingVars, callVars, viewVars>>

\* clearAllFilters, then the effect on [columnFilters]
clearAllFilters ==
  /\ MainRendered
  /\ columnFilters' = <<>>
  /\ paginationParams' = FilterSync(paginationParams, columnFilters')
  /\ UNCHANGED <<paginationMode, columnSettings, userComplexFilters, sortConfig>>
  /\ LoaderSync
  /\ PrefetchSync
  /\ Ran("clearAllFilters")
  /\ UNCHANGED otherVars

\* AdvancedFilterBuilder onChange / toolbar clear -> handleUserComplexFiltersChange
handleUserComplexFiltersChange(newFilters) ==
  /\ MainRendered
  /\ userComplexFilters' = newFilters
  /\ paginationParams' = ComplexFilterSync(paginationParams)
  /\ UNCHANGED <<paginationMode, columnSettings, columnFilters, sortConfig>>
  /\ LoaderSync
  /\ PrefetchSync
  /\ Ran("handleUserComplexFiltersChange")
  /\ UNCHANGED otherVars

\* Pagination onPageChange -> handlePageChange
handlePageChange(newPage) ==
  /\ ShowsPagination
  /\ paginationParams' = [paginationParams EXCEPT !.page = newPage]
  /\ UNCHANGED <<paginationMode, columnSettings, columnFilters, userComplexFilters,
                 sortConfig>>
  /\ LoaderSync
  /\ PrefetchSync
  /\ Ran("handlePageChange")
  /\ UNCHANGED otherVars

\* Pagination onPageSizeChange -> handlePageSizeChange
handlePageSizeChange(newLimit) ==
  /\ ShowsPagination
  /\ paginationParams' = [paginationParams EXCEPT !.limit = newLimit, !.page = 1]
  /\ UNCHANGED <<paginationMode, columnSettings, columnFilters, userComplexFilters,
                 sortConfig>>
  /\ LoaderSync
  /\ PrefetchSync
  /\ Ran("handlePageSizeChange")
  /\ UNCHANGED otherVars

\* toolbar refresh / error panel retry -> handleRefresh -> refetch()
handleRefresh ==
  /\ MainRendered \/ ShowsError
  /\ IF isInfiniteMode \/ error
     THEN FreshLoadState
     ELSE UNCHANGED loaderVars
  /\ fetchIssued' = TRUE
  /\ Ran("handleRefresh")
  /\ UNCHANGED <<tableVars, otherVars, prefetched>>

\* the pointer enters a row of the table: getRowPrefetchProps(item) starts
\* the prefetch of its detail, which the cache remembers
hoverRow(id) ==
  /\ ShowsTable
  /\ id \in data
  /\ prefetched' = prefetched \cup {id}
  /\ UNCHANGED <<tableVars, loaderVars, otherVars>>
  /\ fetchIssued' = FALSE
  /\ Ran("hoverRow")

(***************************************************************************)
(* TableFilters: typing in a filter input                                  *)
(***************************************************************************)
\* the quiet period of the filter inputs
DebounceDelay == 300

DebounceStep == DebounceDelay \div 2

\* a keystroke in the filter input of a column: the text waits, the quiet
\* period starts again
typeFilterText(columnKey, text) ==
  /\ MainRendered
  /\ columnKey \in FilterableKeys
  /\ filterDraft = NoDraft \/ filterDraft.key = columnKey
  /\ filterDraft' = [key |-> columnKey, text |-> text]
  /\ debounceLeft' = DebounceDelay
  /\ keystrokes' = IF debounceLeft < 0 THEN 1 ELSE Min(keystrokes + 1, MaxKeystrokes)
  /\ UNCHANGED <<tableVars, loaderVars, deleteVars, bodyVars, indicatorVars>>
  /\ fetchIssued' = FALSE
  /\ Ran("typeFilterText")
  /\ UNCHANGED <<callVars, prefetched, viewVars>>

\* time passes without a keystroke
DebounceTick ==
  /\ debounceLeft > 0
  /\ debounceLeft' = Max(debounceLeft - DebounceStep, 0)
  /\ UNCHANGED <<filterDraft, keystrokes>>
  /\ UNCHANGED <<tableVars, loaderVars, deleteVars, bodyVars, indicatorVars>>
  /\ fetchIssued' = FALSE
  /\ Ran("DebounceTick")
  /\ UNCHANGED <<callVars, prefetched, viewVars>>

\* the quiet period is over: the text is handed to onFilterChange
DebounceFires ==
  /\ debounceLeft = 0
  /\ ColumnFilterChange(filterDraft.key, filterDraft.text)
  /\ filterDraft' = NoDraft
  /\ debounceLeft' = -1
  /\ UNCHANGED keystrokes
  /\ Ran("DebounceFires")
  /\ UNCHANGED <<callVars, viewVars>>

(***************************************************************************)
(* DataTable: the column handlers                                          *)
(***************************************************************************)
ColumnStep(newSettings, op) ==
  /\ columnSettings' = newSettings
  /\ UNCHANGED <<paginationMode, columnFilters, userComplexFilters, sortConfig,
                 paginationParams>>
  /\ LoaderSync
  /\ PrefetchSync
  /\ Ran(op)
  /\ UNCHANGED otherVars

\* ColumnManager onToggleVisibility
toggleColumnVisibility(key) ==
  /\ MainRendered
  /\ ColumnStep(ToggleVisibility(columnSettings, key), "toggleColumnVisibility")

\* ColumnManager onMoveColumn
moveColumn(key, direction) ==
  /\ MainRendered
  /\ ColumnStep(MoveColumn(columnSettings, key, direction), "moveColumn")

\* TableHeader onColumnResize
handleColumnResize(key, width) ==
  /\ ShowsTable
  /\ key \in VisibleKeys
  /\ ColumnStep(ResizeColumn(columnSettings, key, width), "handleColumnResize")

\* TableHeader onColumnReorder
handleColumnReorder(dragKey, dropKey) ==
  /\ ShowsTable
  /\ dragKey \in VisibleKeys /\ dropKey \in VisibleKeys
  /\ ColumnStep(ReorderColumn(columnSettings, dragKey, dropKey), "handleColumnReorder")

\* ColumnManager onResetColumns
resetColumns ==
  /\ MainRendered
  /\ ColumnStep(ResetColumns, "resetColumns")

(***************************************************************************)
(* The loaders: completion of the fetches                                  *)
(***************************************************************************)
\* the first page (or the requested page) arrives: some rows, and the number
\* of rows the server holds; more pages remain iff fewer rows are loaded
FirstPage(cap, incremental) ==
  /\ status = "loading"
  /\ status' = "ready"
  /\ \E rows \in SUBSET RowIds(cap) :
       /\ data' = rows
       /\ \E total \in Cardinality(rows)..cap :
            /\ (rows = {}) => (total = 0)
            /\ ~incremental => (total = Cardinality(rows))
            /\ totalItems' = total
            /\ hasNextPage' = (incremental /\ Cardinality(rows) < total)

\* the fetch of the first page fails
FirstPageFails ==
  /\ status = "loading"
  /\ status' = "error"
  /\ UNCHANGED <<data, hasNextPage, totalItems>>

\* a background refetch (manual refresh, invalidation) brings the rows the
\* server now holds
Refetched(cap) ==
  /\ status = "ready"
  /\ ~isInfiniteMode
  /\ \E rows \in SUBSET RowIds(cap) :
       /\ data' = rows
       /\ totalItems' = Cardinality(rows)
  /\ UNCHANGED <<status, hasNextPage, isFetchingNextPage, pendingNext>>

\* fetchNextPage(): the loader marks the fetch as started before it returns
StartNextPage(pending) ==
  /\ isFetchingNextPage' = TRUE
  /\ pendingNext' = Min(pending + 1, MaxPending)

\* a next page arrives and is appended to the accumulated rows
NextPageRows(cap) ==
  {rows \in SUBSET (RowIds(cap) \ data) :
     rows # {} /\ Cardinality(data) + Cardinality(rows) <= totalItems}

\* InfiniteScroll: the sentinel calls onLoadMore when more rows exist and no
\* load is under way
InfiniteScrollFires(hasMore, isLoadingMore) == hasMore /\ ~isLoadingMore

FetchSuccess ==
  /\ FirstPage(MaxRows, isInfiniteMode)
  /\ UNCHANGED <<isFetchingNextPage, pendingNext>>
  /\ fetchIssued' = FALSE
  /\ Ran("FetchSuccess")
  /\ UNCHANGED <<tableVars, otherVars, prefetched>>

FetchFailure ==
  /\ FirstPageFails
  /\ UNCHANGED <<isFetchingNextPage, pendingNext>>
  /\ fetchIssued' = FALSE
  /\ Ran("FetchFailure")
  /\ UNCHANGED <<tableVars, otherVars, prefetched>>

RefetchSuccess ==
  /\ Refetched(MaxRows)
  /\ fetchIssued' = FALSE
  /\ Ran("RefetchSuccess")
  /\ UNCHANGED <<tableVars, otherVars, prefetched>>

\* InfiniteScroll onLoadMore -> infiniteQuery.fetchNextPage()
InfiniteLoadMore ==
  /\ ShowsInfiniteScroll
  /\ InfiniteScrollFires(hasNextPage, isFetchingNextPage)
  /\ StartNextPage(pendingNext)
  /\ UNCHANGED <<status, data, hasNextPage, totalItems>>
  /\ fetchIssued' = TRUE
  /\ Ran("InfiniteLoadMore")
  /\ UNCHANGED <<tableVars, otherVars, prefetched>>

\* the next page arrives
FetchNextPageSuccess ==
  /\ pendingNext > 0
  /\ \E rows \in NextPageRows(MaxRows) :
       /\ data' = data \cup rows
       /\ hasNextPage' = (Cardinality(data') < totalItems)
  /\ pendingNext' = pendingNext - 1
  /\ isFetchingNextPage' = (pendingNext' > 0)
  /\ UNCHANGED <<status, totalItems>>
  /\ fetchIssued' = FALSE
  /\ Ran("FetchNextPageSuccess")
  /\ UNCHANGED <<tableVars, otherVars, prefetched>>

\* the fetch of the next page fails: nothing is appended, more pages remain
FetchNextPageFailure ==
  /\ pendingNext > 0
  /\ pendingNext' = pendingNext - 1
  /\ isFetchingNextPage' = (pendingNext' > 0)
  /\ UNCHANGED <<status, data, hasNextPage, totalItems>>
  /\ fetchIssued' = FALSE
  /\ Ran("FetchNextPageFailure")
  /\ UNCHANGED <<tableVars, otherVars, prefetched>>

QueryNext ==
  \/ \E key \in ColumnKeys, direction \in {"ASC", "DESC"} : handleSort(key, direction)
  \/ \E key \in ColumnKeys, value \in FilterTexts : handleColumnFilterChange(key, value)
  \/ clearAllFilters
  \/ \E g \in FilterGroups \cup {Undefined} : handleUserComplexFiltersChange(g)
  \/ \E p \in 1..MaxPage : handlePageChange(p)
  \/ \E l \in pageSizeOptions : handlePageSizeChange(l)
  \/ handleRefresh
  \/ FetchSuccess
  \/ FetchFailure
  \/ RefetchSuccess
  \/ InfiniteLoadMore
  \/ FetchNextPageSuccess
  \/ FetchNextPageFailure

(***************************************************************************)
(* DataTable: delete of a row                                              *)
(***************************************************************************)
\* deleteAuth.isLoading
deleteIsLoading == deleting # 0

\* a delete button that stays disabled once a delete was confirmed
TableDeleteDisabledOnceConfirmed(id) == lastConfirm = "accepted"

\* DataTable actions column: <button onClick={onEdit...}> carries no disabled
TableEditDisabled(id) == FALSE

\* DataTable actions column: disabled={deleteAuth.isLoading}, on every row
TableDeleteDisabled(id) == deleteIsLoading

\* DataTable actions column: the spinner replaces the icon of the delete button
TableRowBusy(id) == deleteIsLoading

\* VirtualizedTableBody: isDeleting={deletingId === item.id}
RowIsDeleting(id) == deleting = id

\* VirtualizedRow: the edit button carries no disabled
RowEditDisabled(isDeleting) == FALSE

\* VirtualizedRow: disabled={isDeleting}
RowDeleteDisabled(isDeleting) == isDeleting

\* VirtualizedRow: className opacity-50 when isDeleting
RowBusy(isDeleting) == isDeleting

\* handleDelete: if (confirm(...)) deleteAuth.mutate(id)
DeleteDecision(confirmed) == confirmed

\* click on the delete button of a row; confirmed is the answer to confirm()
handleDelete(id, confirmed) ==
  /\ ShowsTable
  /\ id \in data
  /\ ~TableDeleteDisabled(id)
  /\ lastConfirm' = IF confirmed THEN "accepted" ELSE "declined"
  /\ deleting' = IF DeleteDecision(confirmed) THEN id ELSE deleting
  /\ UNCHANGED loaderVars
  /\ fetchIssued' = FALSE
  /\ Ran("handleDelete")
  /\ UNCHANGED <<tableVars, bodyVars, indicatorVars, inputVars>>

\* the delete succeeds: the mutation invalidates the list, which is refetched
DeleteSuccess ==
  /\ deleteIsLoading
  /\ deleting' = 0
  /\ UNCHANGED lastConfirm
  /\ UNCHANGED loaderVars
  /\ fetchIssued' = TRUE
  /\ Ran("DeleteSuccess")
  /\ UNCHANGED <<tableVars, bodyVars, indicatorVars, inputVars>>

\* the delete fails: nothing else changes
DeleteFailure ==
  /\ deleteIsLoading
  /\ deleting' = 0
  /\ UNCHANGED lastConfirm
  /\ UNCHANGED loaderVars
  /\ fetchIssued' = FALSE
  /\ Ran("DeleteFailure")
  /\ UNCHANGED <<tableVars, bodyVars, indicatorVars, inputVars>>

(***************************************************************************)
(* VirtualizedTableBody: the window                                        *)
(***************************************************************************)
\* the window of rows to materialize, as the windowing library computes it
computeWindow(itemCount, off, viewportHeight, rowHeight, overscan) ==
  LET firstVisible ==
        IF itemCount = 0 THEN 0 ELSE Min(Max(off \div rowHeight, 0), itemCount - 1)
      visibleCount == (viewportHeight + rowHeight - 1) \div rowHeight
  IN  [startIndex |-> IF itemCount = 0 THEN 0 ELSE Max(0, firstVisible - overscan),
       endIndex |-> IF itemCount = 0 THEN -1
                    ELSE Min(itemCount - 1, firstVisible + visibleCount + overscan),
       totalExtent |-> itemCount * rowHeight]

\* the virtualizer counting the rows the server reports
VirtualizerCountTotal == totalItems

\* useVirtualizer({ count: data.length, ... })
VirtualizerCount == Cardinality(data)

\* useVirtualizer({..., estimateSize: rowHeight, overscan}) at the scroll
\* position of the container
\* the virtualizer configured without the overscan of the configuration
VirtualizerWindowNoOverscan(count, config, off) ==
  computeWindow(count, off, config.containerHeight, config.rowHeight, 0)

\* useVirtualizer({ count, estimateSize: () => rowHeight, overscan }) in a
\* container of height containerHeight scrolled to off
VirtualizerWindow(count, config, off) ==
  computeWindow(count, off, config.containerHeight, config.rowHeight, config.overscan)

Window == VirtualizerWindow(VirtualizerCount, cfg, scrollOffset)

\* virtualizer.getVirtualItems(): the indices of the window
virtualRows == Window.startIndex..Window.endIndex

\* virtualizer.getTotalSize()
totalSize == Window.totalExtent

\* if (data.length === 0) return <div>Aucune donnée à afficher</div>
BodyShowsPlaceholder == Cardinality(data) = 0

\* virtualRows.map: const item = data[index]; if (!item) return null
BodyRenderedRows ==
  IF BodyShowsPlaceholder THEN {}
  ELSE {i \in virtualRows : 0 <= i /\ i < Cardinality(data)}

(***************************************************************************)
(* VirtualizedTableBody: the near-end effect                               *)
(***************************************************************************)
\* the near-end effect without the test of isLoadingMore
ShouldRequestMoreWhileLoading(hasMore, isLoadingMore, w, dataLength, threshold) ==
  /\ hasMore
  /\ w.startIndex <= w.endIndex
  /\ w.endIndex >= dataLength - threshold

\* the near-end effect: does it call onNearEnd()
ShouldRequestMore(hasMore, isLoadingMore, w, dataLength, threshold) ==
  /\ hasMore /\ ~isLoadingMore
  /\ w.startIndex <= w.endIndex
  /\ w.endIndex >= dataLength - threshold

\* the effect after a render; fetching and pending are the loader's flags the
\* render saw; onNearEnd is wired to fetchNextPage
BodyEffect(fetching, pending) ==
  LET w == Window'
      calls == ShouldRequestMore(hasNextPage', fetching, w, Cardinality(data'),
                                cfg.scrollThreshold)
  IN  /\ nearEnd' = [ran |-> TRUE, hasMore |-> hasNextPage',
                     isLoadingMore |-> fetching, endIndex |-> w.endIndex,
                     itemCount |-> Cardinality(data'),
                     threshold |-> cfg.scrollThreshold, called |-> calls]
      /\ IF calls THEN StartNextPage(pending)
         ELSE isFetchingNextPage' = fetching /\ pendingNext' = pending
      /\ fetchIssued' = calls

(***************************************************************************)
(* VirtualizedTableBody: the position indicator                            *)
(***************************************************************************)
PendingTimers == {id \in DOMAIN timers : timers[id] >= 0}

\* if (indicatorTimeoutRef.current) clearTimeout(indicatorTimeoutRef.current)
ClearTimeout(t, id) == IF id # 0 THEN [t EXCEPT ![id] = -1] ELSE t

\* setTimeout: the id of the new timer
NewTimerId(t) == CHOOSE id \in DOMAIN t : t[id] < 0

\* handleScroll
handleScroll ==
  IF ~cfg.showScrollIndicator
  THEN UNCHANGED <<showIndicator, indicatorTimeoutRef, timers>>
  ELSE LET cleared == ClearTimeout(timers, indicatorTimeoutRef)
           id == NewTimerId(cleared)
       IN  /\ showIndicator' = TRUE
           /\ indicatorTimeoutRef' = id
           /\ timers' = [cleared EXCEPT ![id] = HideDelay]

\* totalRows={totalItems > 0 ? totalItems : data.length}
IndicatorTotalRows == IF totalItems > 0 THEN totalItems ELSE Cardinality(data)

\* the indicator is on screen: the body renders it with
\* visible={showIndicator && data.length > 50} and it returns null when
\* !visible || totalRows === 0
IndicatorVisible ==
  /\ mounted
  /\ ~BodyShowsPlaceholder
  /\ showIndicator /\ Cardinality(data) > IndicatorMinRows
  /\ IndicatorTotalRows # 0

\* the label without the cap on its upper bound
ScrollPositionIndicatorNoCap(startIndex, endIndex, totalRows, visible) ==
  IF ~visible \/ totalRows = 0
    THEN [shown |-> FALSE]
    ELSE [shown |-> TRUE,
          text |-> <<"Lignes ", startIndex + 1, "-", endIndex + 1, " sur ", totalRows>>]

\* ScrollPositionIndicator: if (!visible || totalRows === 0) return null;
\* Lignes {startIndex + 1}-{Math.min(endIndex + 1, totalRows)} sur {totalRows}
ScrollPositionIndicator(startIndex, endIndex, totalRows, visible) ==
  IF ~visible \/ totalRows = 0
    THEN [shown |-> FALSE]
    ELSE [shown |-> TRUE,
          text |-> <<"Lignes ", startIndex + 1, "-", Min(endIndex + 1, totalRows),
                     " sur ", totalRows>>]

\* VirtualizedTableBody hands virtualizationConfig to useVirtualizer as it
\* is: nothing looks at rowHeight or overscan first
ConfigRejected(config) == FALSE

\* what mounting the body with a configuration gives
MountOutcome(config) ==
  IF ConfigRejected(config) THEN "ConfigurationError" ELSE "rendered"

(***************************************************************************)
(* VirtualizedTableBody: the steps                                         *)
(***************************************************************************)
\* the render after a step and its effects; the scroll listener was attached
\* by the effect on [handleScroll], which ran at mount, and goes away with
\* the scroll container when the placeholder is rendered
BodyCommit(op, off, fetching, pending) ==
  /\ mounted
  /\ UNCHANGED <<cfg, mounted>>
  /\ scrollOffset' = off
  /\ listenerAttached' = (listenerAttached /\ Cardinality(data') > 0)
  /\ BodyEffect(fetching, pending)
  /\ Ran(op)
  /\ UNCHANGED <<tableVars, deleteVars, inputVars>>

\* the position of the container after the list changed
ClampOffset(off, count) == Min(off, count * cfg.rowHeight)

\* a scroll event on the scroll container
BodyScroll(off) ==
  /\ ~BodyShowsPlaceholder
  /\ off \in 0..totalSize
  /\ UNCHANGED <<status, data, hasNextPage, totalItems>>
  /\ IF listenerAttached THEN handleScroll
     ELSE UNCHANGED <<showIndicator, indicatorTimeoutRef, timers>>
  /\ sinceScroll' = 0
  /\ BodyCommit("BodyScroll", off, isFetchingNextPage, pendingNext)

\* the first page of the incremental loader arrives
BodyFirstPage ==
  /\ FirstPage(MaxItems, TRUE)
  /\ UNCHANGED indicatorVars
  /\ BodyCommit("BodyFirstPage", 0, isFetchingNextPage, pendingNext)

\* the fetch of the first page fails
BodyFirstPageFails ==
  /\ FirstPageFails
  /\ UNCHANGED indicatorVars
  /\ BodyCommit("BodyFirstPageFails", 0, isFetchingNextPage, pendingNext)

\* a next page arrives
BodyNextPage ==
  /\ pendingNext > 0
  /\ \E rows \in NextPageRows(MaxItems) :
       /\ data' = data \cup rows
       /\ hasNextPage' = (Cardinality(data') < totalItems)
  /\ UNCHANGED <<status, totalItems>>
  /\ UNCHANGED indicatorVars
  /\ BodyCommit("BodyNextPage", scrollOffset, pendingNext - 1 > 0, pendingNext - 1)

\* the fetch of a next page fails
BodyNextPageFails ==
  /\ pendingNext > 0
  /\ UNCHANGED <<status, data, hasNextPage, totalItems>>
  /\ UNCHANGED indicatorVars
  /\ BodyCommit("BodyNextPageFails", scrollOffset, pendingNext - 1 > 0,
                pendingNext - 1)

\* refetch(): the incremental loader restarts from empty
BodyRefetch ==
  /\ status # "loading"
  /\ status' = "loading"
  /\ data' = {}
  /\ hasNextPage' = FALSE
  /\ totalItems' = 0
  /\ UNCHANGED indicatorVars
  /\ BodyCommit("BodyRefetch", 0, FALSE, 0)

\* the caller re-renders the body with another list
BodyData(n) ==
  /\ data' = 1..n
  /\ totalItems' = n
  /\ UNCHANGED <<status, hasNextPage>>
  /\ UNCHANGED indicatorVars
  /\ BodyCommit("BodyData", ClampOffset(scrollOffset, n), isFetchingNextPage,
                pendingNext)

\* time passes
TimeStep == HideDelay \div 3

Tick ==
  /\ (PendingTimers # {} \/ sinceScroll < HideDelay)
  /\ timers' = [id \in DOMAIN timers |->
                  IF timers[id] > 0 THEN Max(timers[id] - TimeStep, 0) ELSE timers[id]]
  /\ sinceScroll' = Min(sinceScroll + TimeStep, HideDelay)
  /\ UNCHANGED <<showIndicator, indicatorTimeoutRef>>
  /\ fetchIssued' = FALSE
  /\ Ran("Tick")
  /\ UNCHANGED <<tableVars, loaderVars, deleteVars, bodyVars, inputVars>>

\* a due timer runs its callback: () => setShowIndicator(false)
TimerFires(id) ==
  /\ timers[id] = 0
  /\ timers' = [timers EXCEPT ![id] = -1]
  /\ showIndicator' = FALSE
  /\ UNCHANGED <<indicatorTimeoutRef, sinceScroll>>
  /\ fetchIssued' = FALSE
  /\ Ran("TimerFires")
  /\ UNCHANGED <<tableVars, loaderVars, deleteVars, bodyVars, inputVars>>

\* cleanup of the timeout effect with nothing cleared
KeepTimeout(t, id) == t

\* cleanup of the timeout effect: if (ref.current) clearTimeout(ref.current)
TimeoutCleanup(t, id) == ClearTimeout(t, id)

\* cleanup of the listener effect: removeEventListener('scroll', handleScroll)
ListenerCleanup(attached) == FALSE

\* the body is unmounted: React runs the cleanups of its effects
Unmount ==
  /\ mounted
  /\ mounted' = FALSE
  /\ listenerAttached' = ListenerCleanup(listenerAttached)
  /\ timers' = TimeoutCleanup(timers, indicatorTimeoutRef)
  /\ UNCHANGED <<showIndicator, indicatorTimeoutRef, sinceScroll>>
  /\ UNCHANGED <<cfg, scrollOffset, nearEnd>>
  /\ fetchIssued' = FALSE
  /\ Ran("Unmount")
  /\ UNCHANGED <<tableVars, loaderVars, deleteVars, inputVars>>

\* a scroll event delivered for the container after the unmount
LateScroll ==
  /\ ~mounted
  /\ IF listenerAttached THEN handleScroll
     ELSE UNCHANGED <<showIndicator, indicatorTimeoutRef, timers>>
  /\ UNCHANGED sinceScroll
  /\ fetchIssued' = FALSE
  /\ Ran("LateScroll")
  /\ UNCHANGED <<tableVars, loaderVars, deleteVars, bodyVars, inputVars>>

(***************************************************************************)
(* DataTable: the value of a cell                                          *)
(***************************************************************************)
\* JavaScript values of the rows
JsUndefined == [t |-> "undefined"]
JsNull == [t |-> "null"]
JsString(v) == [t |-> "string", v |-> v]
JsNumber(v) == [t |-> "number", v |-> v]
JsObject(f) == [t |-> "object", f |-> f]

\* value?.[key]
OptionalGet(value, key) ==
  IF value.t = "object" /\ key \in DOMAIN value.f THEN value.f[key] ELSE JsUndefined

\* value.toString() and String(value), for the values of the rows
toString(value) ==
  CASE value.t = "string" -> value.v
    [] value.t = "number" -> IF value.v = 0 THEN "0" ELSE "7"
    [] value.t = "object" -> "[object Object]"
    [] OTHER -> value.t

\* column.key.split('.'), for the keys of the columns
SplitKey(key) == IF key = "user.nom" THEN <<"user", "nom">> ELSE <<key>>

\* for (const key of keys) { value = value?.[key]; if (value === undefined
\* || value === null) break }
RECURSIVE WalkPath(_, _)
WalkPath(value, keys) ==
  IF keys = <<>> THEN value
  ELSE LET next == OptionalGet(value, Head(keys))
       IN  IF next.t \in {"undefined", "null"} THEN next ELSE WalkPath(next, Tail(keys))

\* value?.toString() || '-'
DisplayOrDash(value) ==
  IF value.t \in {"undefined", "null"} THEN "-"
  ELSE IF toString(value) = "" THEN "-" ELSE toString(value)

\* renderCellContent, column without render
renderCellContent(item, key) == DisplayOrDash(WalkPath(item, SplitKey(key)))

\* getRawCellValue, column without render
getRawCellValue(item, key) == DisplayOrDash(WalkPath(item, SplitKey(key)))

\* VirtualizedRow, column without render: rawValue = item[column.key];
\* rawValue !== null && rawValue !== undefined ? String(rawValue) : '-'
VirtualizedRowCell(item, key) ==
  LET rawValue == OptionalGet(item, key)
  IN  IF rawValue.t \in {"undefined", "null"} THEN "-" ELSE toString(rawValue)

(***************************************************************************)
(* DataTable: exportToCSV                                                  *)
(***************************************************************************)
Quote == "\""
Comma == ","
LineFeed == "\n"
CarriageReturn == "\r"

\* s.includes(c)
Includes(s, c) == \E i \in 1..Len(s) : s[i] = c

\* s.replace(/"/g, '""')
RECURSIVE DoubleQuotes(_)
DoubleQuotes(s) ==
  IF s = <<>> THEN <<>>
  ELSE (IF Head(s) = Quote THEN <<Quote, Quote>> ELSE <<Head(s)>>) \o DoubleQuotes(Tail(s))

\* the header of a column: the quotes are doubled, then the label is wrapped
\* if it has a comma, a quote or a line feed
escapeLabel(text) ==
  LET label == DoubleQuotes(text)
  IN  IF Includes(label, Comma) \/ Includes(label, Quote) \/ Includes(label, LineFeed)
        THEN <<Quote>> \o label \o <<Quote>>
        ELSE label

\* a data cell: wrapped, quotes doubled, if it has a comma, a quote, a line
\* feed or a carriage return
escapeCell(rawValue) ==
  IF \/ Includes(rawValue, Comma) \/ Includes(rawValue, Quote)
     \/ Includes(rawValue, LineFeed) \/ Includes(rawValue, CarriageReturn)
    THEN <<Quote>> \o DoubleQuotes(rawValue) \o <<Quote>>
    ELSE rawValue

\* csvContent for one visible column and one row: [header, row].join('\n')
csvContent(label, rawValue) == escapeLabel(label) \o <<LineFeed>> \o escapeCell(rawValue)

\* a reader of CSV text: a quote opening a field starts a quoted part, in
\* which two quotes are one and one quote ends the part; outside, a comma
\* ends the field and a line feed ends the record
RECURSIVE ParseCSV(_, _, _, _, _, _)
ParseCSV(text, i, quoted, field, record, records) ==
  IF i > Len(text) THEN Append(records, Append(record, field))
  ELSE LET c == text[i]
       IN  IF quoted
             THEN IF c = Quote
                    THEN IF i < Len(text) /\ text[i + 1] = Quote
                           THEN ParseCSV(text, i + 2, TRUE, Append(field, Quote), record,
                                         records)
                           ELSE ParseCSV(text, i + 1, FALSE, field, record, records)
                    ELSE ParseCSV(text, i + 1, TRUE, Append(field, c), record, records)
             ELSE IF c = Quote /\ field = <<>>
                    THEN ParseCSV(text, i + 1, TRUE, field, record, records)
                  ELSE IF c = Comma
                    THEN ParseCSV(text, i + 1, FALSE, <<>>, Append(record, field), records)
                  ELSE IF c = LineFeed
                    THEN ParseCSV(text, i + 1, FALSE, <<>>, <<>>,
                                  Append(records, Append(record, field)))
                  ELSE ParseCSV(text, i + 1, FALSE, Append(field, c), record, records)

\* exportToCSV(filename = 'export.csv'): the name of the file; supplied says
\* whether the caller gave an argument
finalFilename(supplied, name, exportFilename, dateStamp) ==
  LET filename == IF supplied THEN name ELSE "export.csv"
      baseName == IF exportFilename \in {Undefined, ""} THEN "datatable" ELSE exportFilename
  IN  IF filename = "export.csv"
        THEN <<baseName, "_export_", dateStamp, ".csv">>
        ELSE <<filename>>

(***************************************************************************)
(* types/table-views.ts: the client-side validation                        *)
(***************************************************************************)
EntityTypes == {"mondes"}

\* AVAILABLE_COLUMNS[EntityType.MONDES]
AVAILABLE_COLUMNS ==
  {"id", "nom", "description", "dateCreation", "statut", "type",
   "niveau_technologique", "niveau_magie", "population_estimee"}

getAvailableColumns(entityType) ==
  IF entityType \in EntityTypes THEN AVAILABLE_COLUMNS ELSE {}

getInvalidColumns(entityType, cols) ==
  SelectSeq(cols, LAMBDA col : col \notin getAvailableColumns(entityType))

ViewError(field, message) == [field |-> field, message |-> message]

validateCreateView(d) ==
  LET nameErrors ==
        IF d.name = <<>> \/ Len(Trim(d.name)) = 0
        THEN {ViewError("name", "obligatoire")}
        ELSE IF Len(d.name) > MaxNameLength
        THEN {ViewError("name", "trop long")}
        ELSE {}
      entityErrors ==
        IF d.entityType = Undefined THEN {ViewError("entityType", "obligatoire")}
        ELSE IF d.entityType \notin EntityTypes
        THEN {ViewError("entityType", "invalide")}
        ELSE {}
      columnErrors ==
        IF Len(d.visibleColumns) = 0
        THEN {ViewError("visibleColumns", "au moins 1")}
        ELSE IF Len(d.visibleColumns) > MaxVisibleColumns
        THEN {ViewError("visibleColumns", "maximum")}
        ELSE IF d.entityType # Undefined
                /\ Len(getInvalidColumns(d.entityType, d.visibleColumns)) > 0
        THEN {ViewError("visibleColumns", "invalides")}
        ELSE {}
  IN  nameErrors \cup entityErrors \cup columnErrors

\* validateUpdateView with the name alone validated
validateUpdateViewNameOnly(d, entityType) ==
  IF "name" \in DOMAIN d
  THEN IF Len(Trim(d.name)) = 0 THEN {ViewError("name", "vide")}
       ELSE IF Len(d.name) > MaxNameLength THEN {ViewError("name", "trop long")}
       ELSE {}
  ELSE {}

validateUpdateView(d, entityType) ==
  LET nameErrors ==
        IF "name" \in DOMAIN d
        THEN IF Len(Trim(d.name)) = 0 THEN {ViewError("name", "vide")}
             ELSE IF Len(d.name) > MaxNameLength THEN {ViewError("name", "trop long")}
             ELSE {}
        ELSE {}
      columnErrors ==
        IF "visibleColumns" \in DOMAIN d
        THEN IF Len(d.visibleColumns) = 0
             THEN {ViewError("visibleColumns", "au moins 1")}
             ELSE IF Len(d.visibleColumns) > MaxVisibleColumns
             THEN {ViewError("visibleColumns", "maximum")}
             ELSE IF Len(getInvalidColumns(entityType, d.visibleColumns)) > 0
             THEN {ViewError("visibleColumns", "invalides")}
             ELSE {}
        ELSE {}
  IN  nameErrors \cup columnErrors

(***************************************************************************)
(* ViewSaveModal: handleSubmit                                             *)
(***************************************************************************)
\* what a submit of the form does: the errors it stores, or the call of
\* onSubmit it makes
handleSubmit(mode, action, name, isDefault, entityType, currentVisibleColumns, viewToEdit) ==
  LET isCreating == mode = "create" \/ (mode = "update-or-create" /\ action = "create")
      createData == [name |-> Trim(name), entityType |-> entityType,
                     visibleColumns |-> currentVisibleColumns, isDefault |-> isDefault]
      updateData == [name |-> Trim(name), visibleColumns |-> currentVisibleColumns,
                     isDefault |-> isDefault]
      validationErrors == IF isCreating THEN validateCreateView(createData)
                          ELSE validateUpdateView(updateData, entityType)
  IN  IF validationErrors # {}
      THEN [submitted |-> FALSE, errors |-> validationErrors]
      ELSE IF isCreating
      THEN [submitted |-> TRUE, errors |-> {}, data |-> createData, viewId |-> 0]
      ELSE [submitted |-> TRUE, errors |-> {}, data |-> updateData,
            viewId |-> viewToEdit.id]

(***************************************************************************)
(* useTableViews and the page that holds the table (ListeMondeWithViews)   *)
(***************************************************************************)
SetOf(s) == {s[i] : i \in DOMAIN s}

\* columns.filter(col => col.visible).map(col => col.key)
NewVisibleKeys(settings) ==
  LET shown == SelectSeq(settings, LAMBDA col : col.visible)
  IN  [i \in DOMAIN shown |-> shown[i].key]

\* views = viewsResponse?.data || []
views == viewsQuery.data

\* isLoading of the query of the views: a first fetch is under way
isViewsLoading == viewsQuery.status = "loading"

\* views.find(v => v.isDefault) || null
defaultView ==
  IF \E v \in views : v.isDefault THEN CHOOSE v \in views : v.isDefault ELSE NoView

isMutating == mutation # NoMutation

\* queryClient.invalidateQueries: an observed query is fetched again
Invalidated(q) ==
  IF q.enabled
  THEN [q EXCEPT !.fetching = TRUE,
                 !.status = IF q.status \in {"idle", "error"} THEN "loading" ELSE @]
  ELSE q

\* refetch(), or a first fetch: a query without data is loading again
Fetching(q) ==
  [q EXCEPT !.fetching = TRUE,
            !.status = IF q.status \in {"idle", "error"} THEN "loading" ELSE @]

\* the server: POST /table-views
Undefaulted(stored, isDefault) ==
  IF isDefault THEN {[v EXCEPT !.isDefault = FALSE] : v \in stored} ELSE stored

FreeViewId == CHOOSE id \in 1..MaxViews :
                /\ \A v \in serverViews : v.id # id
                /\ \A other \in 1..(id - 1) : \E v \in serverViews : v.id = other

CreatedView(d) ==
  [id |-> FreeViewId, name |-> d.name, visibleColumns |-> d.visibleColumns,
   isDefault |-> d.isDefault]

\* the server: PATCH /table-views/:id
StoredView(id) == CHOOSE v \in serverViews : v.id = id

UpdatedView(id, d) ==
  LET old == StoredView(id)
  IN  [id |-> id,
       name |-> IF "name" \in DOMAIN d THEN d.name ELSE old.name,
       visibleColumns |-> IF "visibleColumns" \in DOMAIN d THEN d.visibleColumns
                          ELSE old.visibleColumns,
       isDefault |-> IF "isDefault" \in DOMAIN d THEN d.isDefault ELSE old.isDefault]

\* the default-view effect runs: if (isLoading || defaultApplied) return
DefaultEffectApplies == ~isViewsLoading' /\ ~defaultApplied

\* the page's effect on currentView: if (currentView) { ... }
PageEffectSyncs(view, fresh) == fresh /\ view # NoView

\* The render that follows a handler: the hook's effect that applies the
\* default view, then the page's effect that follows currentView.  view,
\* unsaved, told and keys are the values the handler has set; fresh tells
\* that setCurrentView received another object than the state held.
ViewsCommit(view, fresh, unsaved, told, keys) ==
  LET apply == DefaultEffectApplies
      found == apply /\ defaultView' # NoView
      shown == IF found THEN defaultView' ELSE view
      sync == PageEffectSyncs(shown, fresh \/ (found /\ shown # view))
  IN  /\ currentView' = shown
      /\ notified' = IF found THEN defaultView' ELSE told
      /\ defaultApplied' = (defaultApplied \/ apply)
      /\ visibleColumnKeys' = IF sync THEN shown.visibleColumns ELSE keys
      /\ hasUnsavedChanges' = IF sync THEN FALSE ELSE unsaved

\* a step of the hook or of the page leaves the table alone
ViewsFrame ==
  /\ UNCHANGED <<tableVars, loaderVars, deleteVars, bodyVars, indicatorVars,
                 typingVars, callVars, prefetched, selector>>
  /\ fetchIssued' = FALSE

HookKeeps ==
  ViewsCommit(currentView, FALSE, hasUnsavedChanges, notified, visibleColumnKeys)

\* the caller turns enabled on
ViewsEnable ==
  /\ ~viewsQuery.enabled
  /\ viewsQuery' = Fetching([viewsQuery EXCEPT !.enabled = TRUE])
  /\ HookKeeps
  /\ UNCHANGED <<serverViews, mutation, modal>>
  /\ ViewsFrame
  /\ Ran("ViewsEnable")

\* refetch() returned by the hook, called after a failure
ViewsRefetch ==
  /\ viewsQuery.status = "error" /\ ~viewsQuery.fetching
  /\ viewsQuery' = Fetching(viewsQuery)
  /\ HookKeeps
  /\ UNCHANGED <<serverViews, mutation, modal>>
  /\ ViewsFrame
  /\ Ran("ViewsRefetch")

\* GET /table-views answers
ViewsLoaded ==
  /\ viewsQuery.fetching
  /\ viewsQuery' = [viewsQuery EXCEPT !.fetching = FALSE, !.status = "ready",
                                      !.data = serverViews]
  /\ HookKeeps
  /\ UNCHANGED <<serverViews, mutation, modal>>
  /\ ViewsFrame
  /\ Ran("ViewsLoaded")

\* GET /table-views fails when no list was loaded yet
ViewsLoadFails ==
  /\ viewsQuery.fetching /\ isViewsLoading
  /\ viewsQuery' = [viewsQuery EXCEPT !.fetching = FALSE,
                                      !.status = IF @ = "loading" THEN "error" ELSE @]
  /\ HookKeeps
  /\ UNCHANGED <<serverViews, mutation, modal>>
  /\ ViewsFrame
  /\ Ran("ViewsLoadFails")

\* ViewSelector: a view of the list, or "Toutes les colonnes", is chosen.
\* The object chosen is the one the state holds, or a copy of it a later
\* fetch has brought.
selectView(view) ==
  /\ modal = NoModal /\ ~isViewsLoading
  /\ UNCHANGED <<serverViews, viewsQuery, mutation, modal>>
  /\ \E fresh \in IF view = currentView THEN BOOLEAN ELSE {TRUE} :
       ViewsCommit(view, fresh, FALSE, view, visibleColumnKeys)
  /\ ViewsFrame
  /\ Ran("selectView")

\* ColumnManager toggles a column and the table tells the page
\* (onColumnSettingsChange = handleColumnVisibilityChange)
changeColumnVisibility(key) ==
  LET newVisibleKeys == NewVisibleKeys(ToggleVisibility(columnSettings, key))
      reference == IF currentView # NoView THEN currentView.visibleColumns
                   ELSE DefaultVisibleKeys
      isDifferent == \/ Len(newVisibleKeys) # Len(reference)
                     \/ ~(SetOf(newVisibleKeys) \subseteq SetOf(reference))
  IN  /\ MainRendered
      /\ modal = NoModal
      /\ columnSettings' = ToggleVisibility(columnSettings, key)
      /\ UNCHANGED <<paginationMode, columnFilters, userComplexFilters, sortConfig,
                     paginationParams>>
      /\ LoaderSync
      /\ PrefetchSync
      /\ UNCHANGED <<serverViews, viewsQuery, mutation, modal>>
      /\ ViewsCommit(currentView, FALSE, hasUnsavedChanges \/ isDifferent, notified,
                     newVisibleKeys)
      /\ UNCHANGED <<deleteVars, bodyVars, indicatorVars, typingVars, callVars, selector>>
      /\ Ran("changeColumnVisibility")

PageStep(newModal, newMutation, op) ==
  /\ modal' = newModal
  /\ mutation' = newMutation
  /\ UNCHANGED <<serverViews, viewsQuery>>
  /\ HookKeeps
  /\ ViewsFrame
  /\ Ran(op)

\* ViewSelector: "Sauvegarder" / "Nouvelle vue depuis l'actuelle"
handleSaveClick ==
  /\ modal = NoModal /\ ~isViewsLoading
  /\ PageStep([mode |-> IF currentView # NoView /\ hasUnsavedChanges
                        THEN "update-or-create"
                        ELSE IF currentView # NoView THEN "edit" ELSE "create",
               viewToEdit |-> currentView],
              mutation, "handleSaveClick")

\* ViewSelector: the pencil of a view of the list
handleEditView(view) ==
  /\ modal = NoModal /\ ~isViewsLoading
  /\ view \in views
  /\ PageStep([mode |-> "edit", viewToEdit |-> view], mutation, "handleEditView")

\* ViewSelector: the bin of a view of the list
handleDeleteView(view) ==
  /\ modal = NoModal /\ ~isViewsLoading
  /\ view \in views
  /\ PageStep([mode |-> "delete", viewToEdit |-> view], mutation, "handleDeleteView")

\* the modals' onClose
closeModal ==
  /\ modal # NoModal
  /\ ~isMutating
  /\ PageStep(NoModal, mutation, "closeModal")

\* ViewSelector: the star of a view of the list; setDefaultView(view.id)
handleSetDefault(view) ==
  /\ modal = NoModal /\ ~isViewsLoading
  /\ view \in views
  /\ ~isMutating
  /\ PageStep(modal, [kind |-> "update", id |-> view.id, data |-> [isDefault |-> TRUE]],
              "handleSetDefault")

\* ViewSaveModal: the form is submitted with what the user has entered;
\* handleSaveSubmit sends the request
submitSave(name, isDefault, action) ==
  LET outcome == handleSubmit(modal.mode, action, name, isDefault, "mondes",
                              visibleColumnKeys, modal.viewToEdit)
  IN  /\ modal.mode \in {"create", "edit", "update-or-create"}
      /\ ~isMutating
      /\ (modal.mode = "create") => (action = "create")
      /\ (modal.mode = "edit") => (action = "update")
      /\ (modal.mode = "update-or-create" /\ action = "update")
           => (name = modal.viewToEdit.name)
      /\ (modal.mode # "edit") => (Len(visibleColumnKeys) # 0)
      /\ outcome.submitted
      /\ PageStep(modal,
                  IF outcome.viewId # 0
                  THEN [kind |-> "update", id |-> outcome.viewId, data |-> outcome.data]
                  ELSE [kind |-> "create", data |-> outcome.data],
                  "submitSave")

\* ViewDeleteModal: "Supprimer"; handleDeleteConfirm
confirmDelete ==
  /\ modal.mode = "delete"
  /\ ~isMutating
  /\ PageStep(modal, [kind |-> "delete", id |-> modal.viewToEdit.id], "confirmDelete")

\* createMutation.onSuccess, then handleSaveSubmit closes the modal
createSucceeds ==
  /\ mutation.kind = "create"
  /\ Cardinality(serverViews) < MaxViews
  /\ LET newView == CreatedView(mutation.data)
     IN  /\ serverViews' = Undefaulted(serverViews, newView.isDefault) \cup {newView}
         /\ viewsQuery' = Invalidated(viewsQuery)
         /\ ViewsCommit(newView, TRUE, FALSE, newView, visibleColumnKeys)
  /\ mutation' = NoMutation
  /\ modal' = NoModal
  /\ ViewsFrame
  /\ Ran("createView")

\* updateMutation.onSuccess, then handleSaveSubmit closes the modal
updateSucceeds ==
  /\ mutation.kind = "update"
  /\ \E v \in serverViews : v.id = mutation.id
  /\ LET updatedView == UpdatedView(mutation.id, mutation.data)
         isCurrent == currentView.id = updatedView.id
     IN  /\ serverViews' = Undefaulted(serverViews \ {StoredView(mutation.id)},
                                       updatedView.isDefault) \cup {updatedView}
         /\ viewsQuery' = Invalidated(viewsQuery)
         /\ ViewsCommit(IF isCurrent THEN updatedView ELSE currentView, isCurrent,
                        FALSE, updatedView, visibleColumnKeys)
  /\ mutation' = NoMutation
  /\ modal' = NoModal
  /\ ViewsFrame
  /\ Ran("updateView")

\* deleteMutation.onSuccess, then handleDeleteConfirm closes the modal
deleteSucceeds ==
  /\ mutation.kind = "delete"
  /\ \E v \in serverViews : v.id = mutation.id
  /\ LET isCurrent == currentView.id = mutation.id
     IN  /\ serverViews' = serverViews \ {StoredView(mutation.id)}
         /\ viewsQuery' = Invalidated(viewsQuery)
         /\ ViewsCommit(IF isCurrent THEN NoView ELSE currentView, isCurrent,
                        hasUnsavedChanges, IF isCurrent THEN NoView ELSE notified,
                        visibleColumnKeys)
  /\ mutation' = NoMutation
  /\ modal' = NoModal
  /\ ViewsFrame
  /\ Ran("deleteView")

\* the request fails: onError logs, the modal stays open
mutationFails ==
  /\ isMutating
  /\ PageStep(modal, NoMutation, "mutationFails")

(***************************************************************************)
(* ViewSelector                                                            *)
(***************************************************************************)
\* the names of the listed views: "Vue 1", "Vue 2", ... without the blank
Digits == <<"1", "2", "3", "4", "5", "6", "7", "8", "9">>

ListedName(id) == <<"V", "u", "e", Digits[id]>>

\* String.prototype.toLowerCase
toLowerCase(t) == [i \in DOMAIN t |-> IF t[i] = "V" THEN "v" ELSE t[i]]

\* text.includes(part)
IncludesText(text, part) ==
  \E i \in 1..(Len(text) + 1) :
    /\ i + Len(part) - 1 <= Len(text)
    /\ SubSeq(text, i, i + Len(part) - 1) = part

\* views.filter(view => view.name.toLowerCase().includes(searchTerm.toLowerCase()))
filteredViews ==
  {id \in selector.views :
     IncludesText(toLowerCase(ListedName(id)), toLowerCase(selector.searchTerm))}

\* the search box is rendered: views.length > 5
ShowsSearchBox == selector.isOpen /\ Cardinality(selector.views) > SearchBoxMinViews

SelectorStep(isOpen, searchTerm, listed, op) ==
  /\ selector' = [isOpen |-> isOpen, searchTerm |-> searchTerm, views |-> listed]
  /\ UNCHANGED <<tableVars, loaderVars, deleteVars, bodyVars, indicatorVars,
                 typingVars, callVars, prefetched, hookVars>>
  /\ fetchIssued' = FALSE
  /\ Ran(op)

\* the main button
toggleDropdown ==
  /\ ~isViewsLoading
  /\ SelectorStep(~selector.isOpen,
                  IF selector.isOpen THEN <<>> ELSE selector.searchTerm,
                  selector.views, "toggleDropdown")

\* mousedown outside of the container while the dropdown is open
handleClickOutside ==
  /\ selector.isOpen
  /\ SelectorStep(FALSE, <<>>, selector.views, "handleClickOutside")

\* the search box: onChange
setSearchTerm(term) ==
  /\ ShowsSearchBox
  /\ SelectorStep(selector.isOpen, term, selector.views, "setSearchTerm")

\* "Toutes les colonnes" (id 0) or a row of the list
handleViewSelect(id) ==
  /\ selector.isOpen
  /\ id \in filteredViews \cup {0}
  /\ SelectorStep(FALSE, <<>>, selector.views, "handleViewSelect")

\* the pencil of a row: onEditView(view); setIsOpen(false)
handleEditClick(id) ==
  /\ selector.isOpen
  /\ id \in filteredViews
  /\ SelectorStep(FALSE, selector.searchTerm, selector.views, "handleEditClick")

\* the bin of a row: onDeleteView(view); setIsOpen(false)
handleDeleteClick(id) ==
  /\ selector.isOpen
  /\ id \in filteredViews
  /\ SelectorStep(FALSE, selector.searchTerm, selector.views, "handleDeleteClick")

\* the star of a row: onSetDefault(view)
handleSetDefaultClick(id) ==
  /\ selector.isOpen
  /\ id \in filteredViews
  /\ SelectorStep(selector.isOpen, selector.searchTerm, selector.views,
                  "handleSetDefaultClick")

\* "Nouvelle vue depuis l'actuelle": onSaveClick(); setIsOpen(false)
clickNewView ==
  /\ selector.isOpen
  /\ SelectorStep(FALSE, selector.searchTerm, selector.views, "clickNewView")

\* the parent renders the selector with a view more or a view less
ListedViewsChange(id) ==
  /\ id \in 1..MaxListed
  /\ SelectorStep(selector.isOpen, selector.searchTerm,
                  IF id \in selector.views THEN selector.views \ {id}
                  ELSE selector.views \cup {id},
                  "ListedViewsChange")

(***************************************************************************)
(* The functions of the code, applied to arguments                         *)
(***************************************************************************)
LabelIndices == (0..MaxIndex) \cup {149, 169}

LabelTotals == (0..MaxIndex) \cup {5000}

LabelCalls ==
  [fn : {"ScrollPositionIndicator"}, startIndex : LabelIndices, endIndex : LabelIndices,
   totalRows : LabelTotals, visible : BOOLEAN]

\* the scroll positions a container of the given height can take over rows
ScrollRange(count, config) ==
  0..Max(0, count * config.rowHeight - config.containerHeight)

WindowCounts == (0..MaxIndex) \cup {5000}

WindowConfigs == BodyConfigs \cup {DEFAULT_VIRTUALIZATION_CONFIG}

WindowOffsets == (0..MaxIndex) \cup {4800}

WindowCalls ==
  {c \in [fn : {"useVirtualizer"}, count : WindowCounts, config : WindowConfigs,
          off : WindowOffsets] : c.off \in ScrollRange(c.count, c.config)}

\* row heights and overscans a caller can write, good and bad
MountConfigs ==
  {[DEFAULT_VIRTUALIZATION_CONFIG EXCEPT !.rowHeight = h, !.overscan = o] :
     h \in {-1, 0, 48}, o \in {-1, 5}}

MountCalls == [fn : {"VirtualizedTableBody"}, config : MountConfigs]

\* texts of at most n characters
RECURSIVE TextsUpTo(_, _)
TextsUpTo(chars, n) ==
  IF n = 0 THEN {<<>>}
  ELSE LET shorter == TextsUpTo(chars, n - 1)
       IN  shorter \cup {Append(t, c) : t \in shorter, c \in chars}

CsvChars == {"a", Comma, Quote, LineFeed, CarriageReturn}

CsvFields == TextsUpTo(CsvChars, MaxFieldLen) \cup {<<"a", Comma, "b", Quote, "c">>}

CsvCalls == [fn : {"exportToCSV"}, label : CsvFields, rawValue : CsvFields]

FilenameCalls ==
  [fn : {"finalFilename"}, supplied : BOOLEAN, name : {"export.csv", "rapport.csv", ""},
   exportFilename : {Undefined, "", "monde"}, dateStamp : {"2026-01-01", "2026-12-31"}]

\* values of a property of a row
LeafValues == {JsUndefined, JsNull, JsString(""), JsString("x"), JsNumber(0), JsNumber(7)}

\* rows with a plain property and a nested one
CellItems ==
  {JsObject([nom |-> n, user |-> u]) :
     n \in LeafValues,
     u \in {JsUndefined, JsNull} \cup {JsObject([nom |-> v]) : v \in LeafValues}}

CellCalls == [fn : {"renderCell"}, item : CellItems, key : ColumnKeys \ {"id"}]

\* a text of n letters
Letters(n) == [i \in 1..n |-> "a"]

\* names a form can hold: empty, blank, short, padded, at the limit, beyond
FormNames ==
  {<<>>, <<" ">>, <<"a">>, <<" ", "a", " ">>, Letters(MaxNameLength),
   Letters(MaxNameLength + 1), Letters(MaxNameLength) \o <<" ">>,
   <<" ">> \o Letters(MaxNameLength + 1)}

\* column lists a table can hand to the form: none, some, one unknown to
\* the entity, at the limit, beyond
FormColumns ==
  {<<>>, <<"id">>, <<"id", "nom">>, <<"id", "user.nom">>,
   [i \in 1..MaxVisibleColumns |-> "nom"], [i \in 1..(MaxVisibleColumns + 1) |-> "nom"]}

SubmitCalls ==
  [fn : {"handleSubmit"}, mode : {"create", "edit", "update-or-create"},
   action : {"update", "create"}, name : FormNames, isDefault : BOOLEAN,
   columns : FormColumns]

Applies(fn, value) ==
  /\ call.fn = fn
  /\ ~result.done
  /\ result' = Returned(value)
  /\ UNCHANGED call
  /\ UNCHANGED <<typingVars, prefetched, viewVars>>
  /\ UNCHANGED <<tableVars, loaderVars, deleteVars, bodyVars, indicatorVars>>
  /\ fetchIssued' = FALSE
  /\ Ran(fn)

RenderLabel ==
  Applies("ScrollPositionIndicator",
          ScrollPositionIndicator(call.startIndex, call.endIndex, call.totalRows,
                                  call.visible))

ComputeWindow ==
  Applies("useVirtualizer", VirtualizerWindow(call.count, call.config, call.off))

MountBody == Applies("VirtualizedTableBody", MountOutcome(call.config))

ExportCsv ==
  Applies("exportToCSV",
          [header |-> escapeLabel(call.label), cell |-> escapeCell(call.rawValue),
           text |-> csvContent(call.label, call.rawValue)])

ExportFilename ==
  Applies("finalFilename",
          finalFilename(call.supplied, call.name, call.exportFilename, call.dateStamp))

SubmitForm ==
  Applies("handleSubmit",
          handleSubmit(call.mode, call.action, call.name, call.isDefault, "mondes",
                       call.columns,
                       IF call.mode = "create" THEN NoView
                       ELSE [id |-> 1, name |-> <<"v">>, visibleColumns |-> <<"id">>,
                             isDefault |-> FALSE]))

RenderCell ==
  Applies("renderCell",
          [table |-> renderCellContent(call.item, call.key),
           export |-> getRawCellValue(call.item, call.key),
           row |-> VirtualizedRowCell(call.item, call.key)])

(***************************************************************************)
(* Specifications                                                          *)
(***************************************************************************)
\* the DataTable: sort, filters, pages and the loaders
Next == QueryNext

Spec == Init /\ [][Next]_vars

\* the DataTable: the columns, with pages
NextColumns ==
  \/ \E key \in ColumnKeys : toggleColumnVisibility(key)
  \/ \E key \in ColumnKeys, direction \in {"up", "down"} : moveColumn(key, direction)
  \/ \E key \in ColumnKeys, width \in ResizeWidths : handleColumnResize(key, width)
  \/ \E dragKey \in ColumnKeys, dropKey \in ColumnKeys :
       handleColumnReorder(dragKey, dropKey)
  \/ resetColumns
  \/ \E p \in 1..MaxPage : handlePageChange(p)
  \/ FetchSuccess

InitColumns ==
  /\ InitWidget({"page", "infinite"})
  /\ InitLoader
  /\ InitBody({DEFAULT_VIRTUALIZATION_CONFIG})
  /\ InitIndicator
  /\ NoViews
  /\ NoCall

SpecColumns == InitColumns /\ [][NextColumns]_vars

\* the DataTable: typing in the filters, sort and pages
NextFilters ==
  \/ \E key \in ColumnKeys, text \in FilterTexts : typeFilterText(key, text)
  \/ DebounceTick
  \/ DebounceFires
  \/ clearAllFilters
  \/ \E key \in ColumnKeys, direction \in {"ASC", "DESC"} : handleSort(key, direction)
  \/ \E p \in 1..MaxPage : handlePageChange(p)
  \/ FetchSuccess

InitFilters ==
  /\ InitWidget({"page"})
  /\ InitLoader
  /\ InitBody({DEFAULT_VIRTUALIZATION_CONFIG})
  /\ InitIndicator
  /\ NoViews
  /\ NoCall

SpecFilters == InitFilters /\ [][NextFilters]_vars

\* the functions of the code, each applied once to arguments drawn at the start
FunctionCalls ==
  LabelCalls \cup WindowCalls \cup MountCalls \cup CsvCalls \cup FilenameCalls \cup CellCalls
    \cup SubmitCalls

InitFunctions ==
  /\ InitWidget({"virtualized"})
  /\ InitLoader
  /\ InitBody({DEFAULT_VIRTUALIZATION_CONFIG})
  /\ InitIndicator
  /\ NoViews
  /\ call \in FunctionCalls
  /\ result = NotComputed

NextFunctions ==
  \/ RenderLabel
  \/ ComputeWindow
  \/ MountBody
  \/ ExportCsv
  \/ ExportFilename
  \/ RenderCell
  \/ SubmitForm

SpecFunctions == InitFunctions /\ [][NextFunctions]_vars

\* the DataTable: rows hovered between changes of the query
\* the name the user types in the form, or the name the form shows
TypedNames == {<<"n">>} \cup (IF modal.mode = "update-or-create"
                              THEN {modal.viewToEdit.name} ELSE {})

\* the user clicks once the list is settled and no request is in flight
UserActs == ~viewsQuery.fetching /\ ~isMutating

\* the columns the user toggles
ToggledKeys == {"nom"}

NextViews ==
  \/ ViewsEnable
  \/ ViewsRefetch
  \/ ViewsLoaded
  \/ ViewsLoadFails
  \/ UserActs /\ \E view \in views \cup {NoView} : selectView(view)
  \/ UserActs /\ \E key \in ToggledKeys : changeColumnVisibility(key)
  \/ UserActs /\ handleSaveClick
  \/ UserActs /\ \E view \in views : handleEditView(view)
  \/ UserActs /\ \E view \in views : handleDeleteView(view)
  \/ UserActs /\ \E view \in views : handleSetDefault(view)
  \/ UserActs /\ closeModal
  \/ \E name \in TypedNames, isDefault \in BOOLEAN, action \in {"update", "create"} :
       submitSave(name, isDefault, action)
  \/ confirmDelete
  \/ createSucceeds
  \/ updateSucceeds
  \/ deleteSucceeds
  \/ mutationFails

InitViewsSpec ==
  /\ InitWidget({"page"})
  /\ InitLoaded({1})
  /\ InitBody({DEFAULT_VIRTUALIZATION_CONFIG})
  /\ InitIndicator /\ NoCall
  /\ InitViews

SpecViews == InitViewsSpec /\ [][NextViews]_vars

\* what the user types in the search box
SearchTerms == {<<>>, <<"v">>, <<"1">>, <<"z">>}

\* the list changes after a request made from a modal, while the dropdown
\* is closed
NextSelector ==
  \/ toggleDropdown
  \/ handleClickOutside
  \/ \E term \in SearchTerms : setSearchTerm(term)
  \/ \E id \in 0..MaxListed : handleViewSelect(id)
  \/ \E id \in 1..MaxListed : handleEditClick(id)
  \/ \E id \in 1..MaxListed : handleDeleteClick(id)
  \/ \E id \in 1..MaxListed : handleSetDefaultClick(id)
  \/ clickNewView
  \/ ~selector.isOpen /\ \E id \in 1..MaxListed : ListedViewsChange(id)

InitSelector ==
  /\ InitWidget({"page"})
  /\ InitLoaded({1})
  /\ InitBody({DEFAULT_VIRTUALIZATION_CONFIG})
  /\ InitIndicator /\ NoCall
  /\ NoHook
  /\ \E listed \in SUBSET (1..MaxListed) : selector = ClosedSelector(listed)

SpecSelector == InitSelector /\ [][NextSelector]_vars

NextPrefetch ==
  \/ \E id \in RowIds(MaxRows) : hoverRow(id)
  \/ \E key \in ColumnKeys, direction \in {"ASC", "DESC"} : handleSort(key, direction)
  \/ \E key \in ColumnKeys, value \in {<<>>, <<"a">>} : handleColumnFilterChange(key, value)
  \/ clearAllFilters
  \/ \E group \in FilterGroups \cup {Undefined} : handleUserComplexFiltersChange(group)
  \/ \E p \in 1..MaxPage : handlePageChange(p)
  \/ \E limit \in pageSizeOptions : handlePageSizeChange(limit)
  \/ FetchSuccess

SpecPrefetch == InitFilters /\ [][NextPrefetch]_vars

\* the DataTable: delete of a row
NextDelete ==
  \/ \E id \in RowIds(MaxRows), confirmed \in BOOLEAN : handleDelete(id, confirmed)
  \/ DeleteSuccess
  \/ DeleteFailure
  \/ FetchSuccess
  \/ RefetchSuccess

SpecDelete == Init /\ [][NextDelete]_vars

\* the incremental loader and what asks it for more: a virtualized body
\* mounted on it and, in mode 'infinite', the sentinel of the DataTable
InitBodySpec ==
  /\ InitWidget({"infinite", "virtualized"})
  /\ InitLoader
  /\ InitBody(BodyConfigs)
  /\ InitIndicator
  /\ NoViews
  /\ NoCall

NextBody ==
  \/ BodyFirstPage
  \/ BodyFirstPageFails
  \/ \E off \in 0..totalSize : BodyScroll(off)
  \/ BodyNextPage
  \/ BodyNextPageFails
  \/ BodyRefetch
  \/ InfiniteLoadMore

SpecBody == InitBodySpec /\ [][NextBody]_vars

\* the virtualized body and its position indicator, with a long list
InitIndicatorSpec ==
  /\ InitWidget({"virtualized"})
  /\ InitLoaded(IndicatorRowCounts)
  /\ InitBody(IndicatorConfigs)
  /\ InitIndicator
  /\ NoViews
  /\ NoCall

NextIndicator ==
  \/ \E n \in IndicatorRowCounts : BodyData(n)
  \/ \E off \in {0, Max(0, totalSize - cfg.containerHeight)} : BodyScroll(off)
  \/ Tick
  \/ \E id \in DOMAIN timers : TimerFires(id)
  \/ Unmount
  \/ LateScroll

SpecIndicator == InitIndicatorSpec /\ [][NextIndicator]_vars

(***************************************************************************)
(* Properties                                                              *)
(***************************************************************************)
\* C1: no load-more signal is issued while a next-page fetch requested
\* earlier is still outstanding: at most one next-page fetch is in flight
C1_AtMostOneFetchInFlight == pendingNext <= 1

\* C1, the case: a scroll near the end of the list while a fetch is in
\* flight, and the effect did not ask for another page
C1_SuppressedWhileFetching ==
  /\ lastOp = "BodyScroll"
  /\ nearEnd.ran /\ nearEnd.hasMore /\ nearEnd.isLoadingMore
  /\ nearEnd.endIndex >= nearEnd.itemCount - nearEnd.threshold
  /\ ~nearEnd.called
  /\ pendingNext = 1

\* C2, as claimed: the effect asks for more iff hasMore, not isFetchingMore
\* and endIndex >= itemCount - 1 - scrollThresholdRows
C2_LoadMoreRule ==
  nearEnd.ran =>
    (nearEnd.called <=>
       (/\ nearEnd.hasMore
        /\ ~nearEnd.isLoadingMore
        /\ nearEnd.endIndex >= nearEnd.itemCount - 1 - nearEnd.threshold))

\* C3: a step that changes the sort, a column filter or the advanced filter
\* leaves the request at page 1 and, outside mode 'page', starts from a fresh
\* Load State; a step that starts a fetch with another sort or filter asks
\* for page 1
C3_SortFilterChangeResets ==
  [][/\ (\/ sortConfig' # sortConfig
         \/ columnFilters' # columnFilters
         \/ userComplexFilters' # userComplexFilters)
        => /\ paginationParams'.page = 1
           /\ (paginationMode # "page")
                => (data' = {} /\ status' = "loading" /\ pendingNext' = 0)
     /\ (/\ fetchIssued'
         /\ SortFilterOf(paginationParams', userComplexFilters')
              # SortFilterOf(paginationParams, userComplexFilters))
        => paginationParams'.page = 1]_vars

\* C3, the case: a sort chosen on page 2 with rows shown
C3_SortFromLaterPage ==
  /\ lastOp = "handleSort"
  /\ before.page > 1 /\ before.loaded > 0
  /\ paginationParams.page = 1
  /\ fetchIssued /\ data = {}

\* C4: the window is a range of indices of loaded rows, not empty when rows
\* are loaded, and every index of it is rendered
C4_WindowWithinData ==
  /\ scrollOffset \in 0..(Cardinality(data) * cfg.rowHeight)
  /\ (Cardinality(data) > 0) => (Window.startIndex <= Window.endIndex)
  /\ \A i \in virtualRows : 0 <= i /\ i <= Cardinality(data) - 1
  /\ BodyRenderedRows = virtualRows

\* C4, the case: scrolled to the end, the window is cut at the last row
C4_WindowAtEnd ==
  /\ lastOp = "BodyScroll"
  /\ Cardinality(data) > 1
  /\ scrollOffset = Cardinality(data) * cfg.rowHeight
  /\ Window.startIndex > 0
  /\ Window.endIndex = Cardinality(data) - 1

\* the two empty-state messages: exactly one is rendered
OneEmptyMessage == ShowsEmptyFiltered # ShowsEmptyUnfiltered

\* C5, amended: with no row loaded the window is empty, its extent is 0, the
\* body renders its placeholder and no table is rendered; the DataTable
\* renders exactly one empty-state message once it is neither loading nor in
\* error, and none before
C5_EmptyStateWhenSettled ==
  (Cardinality(data) = 0) =>
    /\ Window.startIndex > Window.endIndex
    /\ totalSize = 0
    /\ BodyShowsPlaceholder /\ BodyRenderedRows = {}
    /\ ~ShowsTable
    /\ MainRendered => OneEmptyMessage
    /\ ~MainRendered => (~ShowsEmptyFiltered /\ ~ShowsEmptyUnfiltered)

\* C5, the case: a fetch with an advanced filter set returned no row
C5_NoResultForFilter ==
  /\ lastOp = "FetchSuccess"
  /\ Cardinality(data) = 0
  /\ userComplexFilters # Undefined /\ ~hasActiveFilters
  /\ ShowsEmptyFiltered

\* C5, as claimed: whenever no row is loaded, exactly one empty-state message
\* is rendered
C5_EmptyStateAlways ==
  (Cardinality(data) = 0) =>
    /\ Window.startIndex > Window.endIndex
    /\ totalSize = 0
    /\ BodyShowsPlaceholder
    /\ ~ShowsTable
    /\ OneEmptyMessage

\* C6, as claimed: a delete starts only on a confirmation; while it is in
\* flight the row is busy and its edit and delete buttons are disabled, in
\* the table and in the virtualized row; the delete steps leave the list alone
C6_DeleteGuarded ==
  [][/\ (deleting' # deleting /\ deleting' # 0) => (lastConfirm' = "accepted")
     /\ (deleting' # 0)
        => /\ TableRowBusy(deleting)' /\ RowBusy(RowIsDeleting(deleting))'
           /\ TableDeleteDisabled(deleting)'
           /\ RowDeleteDisabled(RowIsDeleting(deleting))'
           /\ TableEditDisabled(deleting)'
           /\ RowEditDisabled(RowIsDeleting(deleting))'
     /\ (lastOp' \in {"handleDelete", "DeleteSuccess", "DeleteFailure"})
        => (data' = data)]_vars

\* the strategy the documentation gives for each paginationMode
DocumentedStrategy ==
  CASE paginationMode = "page" -> "Paged"
    [] paginationMode = "infinite" -> "Incremental"
    [] paginationMode = "virtualized" -> "Windowed"

\* C7, as claimed: the paginationMode fixes the rendering strategy, 'page'
\* the paged list, 'infinite' the incremental list, 'virtualized' the
\* windowed list
C7_ModeSelectsStrategy == RenderStrategy = DocumentedStrategy

ColumnOps ==
  {"toggleColumnVisibility", "moveColumn", "handleColumnResize",
   "handleColumnReorder", "resetColumns"}

\* C8: a column operation leaves the request parameters, the sort and the
\* filters as they were, changes no query key and starts no fetch
C8_ColumnOpsKeepRequest ==
  [][(lastOp' \in ColumnOps \/ columnSettings' # columnSettings)
       => /\ paginationParams' = paginationParams
          /\ sortConfig' = sortConfig
          /\ columnFilters' = columnFilters
          /\ userComplexFilters' = userComplexFilters
          /\ cacheKey' = cacheKey
          /\ infiniteParams' = infiniteParams
          /\ ~fetchIssued'
          /\ UNCHANGED loaderVars]_vars

\* C8, the case: columns dragged on page 2 of a sorted list
C8_ReorderOnLaterPage ==
  /\ lastOp = "handleColumnReorder"
  /\ columnSettings # InitialColumnSettings
  /\ paginationParams.page > 1
  /\ sortConfig # NoSort
  /\ status = "ready" /\ ~fetchIssued

OrdersOf(s) == {s[i].order : i \in DOMAIN s}

OneDescriptorPerKey ==
  /\ Len(columnSettings) = Len(columns)
  /\ \A k \in ColumnKeys :
       Cardinality({i \in DOMAIN columnSettings : columnSettings[i].key = k}) = 1

\* C9, amended: one descriptor per key, the order values of all the columns,
\* hidden ones included, are a permutation of 0..M-1, and the visible columns
\* are rendered by strictly increasing order
C9_OrdersArePermutation ==
  /\ OneDescriptorPerKey
  /\ OrdersOf(columnSettings) = 0..(Len(columnSettings) - 1)
  /\ \A i \in 1..(Len(visibleColumns) - 1) :
       visibleColumns[i].order < visibleColumns[i + 1].order

\* C9, the case: a column moved in front of others while a column is hidden
C9_MovedWithHidden ==
  /\ lastOp = "moveColumn"
  /\ columnSettings[1].key # columns[1].key
  /\ Len(visibleColumns) < Len(columnSettings)

\* C9, as claimed: the order values of the visible columns are 0..N-1
C9_VisibleOrdersDense ==
  /\ OneDescriptorPerKey
  /\ OrdersOf(visibleColumns) = 0..(Len(visibleColumns) - 1)

\* C10, as claimed, for a body with the indicator enabled and more than 50
\* rows: after a scroll event the indicator is on screen and exactly one hide
\* timer, set to the full delay, is pending; never more than one timer is
\* pending; the indicator stays on screen until 1.5 s passed without a scroll
C10_ScrollShowsIndicator ==
  /\ Cardinality(PendingTimers) <= 1
  /\ (mounted /\ cfg.showScrollIndicator /\ Cardinality(data) > IndicatorMinRows)
     => /\ (lastOp = "BodyScroll")
           => /\ IndicatorVisible
              /\ PendingTimers = {indicatorTimeoutRef}
              /\ timers[indicatorTimeoutRef] = HideDelay
        /\ (sinceScroll < HideDelay /\ lastOp \in {"BodyScroll", "Tick"})
           => IndicatorVisible

\* C11: once the body is unmounted no hide timer is pending and no scroll
\* listener is attached, and no step writes the indicator state, runs a timer
\* callback or sets a timer
C11_NothingAfterUnmount ==
  [][~mounted'
       => /\ PendingTimers' = {}
          /\ ~listenerAttached'
          /\ showIndicator' = showIndicator
          /\ indicatorTimeoutRef' = indicatorTimeoutRef
          /\ lastOp' # "TimerFires"]_vars

\* C11, the case: unmounted while the indicator was shown and its timer
\* pending; the delay has passed and a late scroll event was delivered
C11_UnmountedWhileShown ==
  /\ ~mounted
  /\ lastOp = "LateScroll"
  /\ showIndicator /\ indicatorTimeoutRef # 0
  /\ sinceScroll = HideDelay

C13_PositionLabel ==
  (call.fn = "ScrollPositionIndicator" /\ result.done)
    => LET label == result.value
           upper == IF call.endIndex + 1 <= call.totalRows
                      THEN call.endIndex + 1 ELSE call.totalRows
       IN  /\ (call.totalRows = 0) => ~label.shown
           /\ (call.totalRows # 0 /\ call.visible)
                => /\ label.shown
                   /\ label.text = <<"Lignes ", call.startIndex + 1, "-", upper, " sur ",
                                     call.totalRows>>
           /\ label.shown => label.text[4] <= call.totalRows
           /\ (call.startIndex = 149 /\ call.endIndex = 169 /\ call.totalRows = 5000
               /\ call.visible)
                => label.text = <<"Lignes ", 150, "-", 170, " sur ", 5000>>

\* C13, the case: a label whose window ends past the reported total
C13_LabelCapped ==
  /\ call.fn = "ScrollPositionIndicator" /\ result.done
  /\ result.value.shown
  /\ call.endIndex + 1 > call.totalRows

C15_InvalidConfigFailsFast ==
  (call.fn = "VirtualizedTableBody" /\ result.done
   /\ (call.config.rowHeight <= 0 \/ call.config.overscan < 0))
    => result.value = "ConfigurationError"

\* C16: a delete that fails leaves the list as it was, the row in it, and
\* once it has settled no row is busy and every delete button is enabled, in
\* the table and in the virtualized row
C16_FailedDeleteSettles ==
  [][(lastOp' = "DeleteFailure")
       => /\ data' = data
          /\ (deleting \in data) => (deleting \in data')
          /\ \A id \in data' :
               /\ ~TableDeleteDisabled(id)' /\ ~TableEditDisabled(id)'
               /\ ~TableRowBusy(id)'
               /\ ~RowDeleteDisabled(RowIsDeleting(id))'
               /\ ~RowEditDisabled(RowIsDeleting(id))'
               /\ ~RowBusy(RowIsDeleting(id))']_vars

\* C16, the case: a confirmed delete has failed and its row is still listed
C16_DeleteFailed ==
  /\ lastOp = "DeleteFailure"
  /\ lastConfirm = "accepted"
  /\ data # {}
  /\ ~deleteIsLoading

\* the characters that make the claimed rule wrap a field, for a reading of
\* "newline"
ClaimedSpecial(field, newlines) ==
  Includes(field, Comma) \/ Includes(field, Quote) \/ \E c \in newlines : Includes(field, c)

\* the field as the claimed rule writes it
ClaimedEscape(field, newlines) ==
  IF ClaimedSpecial(field, newlines)
    THEN <<Quote>> \o DoubleQuotes(field) \o <<Quote>>
    ELSE field

\* C17, as claimed: header label and data cell are written by one rule, which
\* wraps a field, its quotes doubled, exactly when it has a comma, a quote or
\* a newline (read as line feed, or as line feed or carriage return), and
\* reading the text back gives the label and the cell; a,b"c is written
\* "a,b""c"
C17_OneEscapingRule ==
  (call.fn = "exportToCSV" /\ result.done)
    => /\ \E newlines \in {{LineFeed}, {LineFeed, CarriageReturn}} :
            /\ result.value.header = ClaimedEscape(call.label, newlines)
            /\ result.value.cell = ClaimedEscape(call.rawValue, newlines)
       /\ ParseCSV(result.value.text, 1, FALSE, <<>>, <<>>, <<>>)
            = << <<call.label>>, <<call.rawValue>> >>
       /\ (call.rawValue = <<"a", Comma, "b", Quote, "c">>)
            => result.value.cell
                 = <<Quote, "a", Comma, "b", Quote, Quote, "c", Quote>>

\* C18, as claimed: the name is {base}_export_{date}.csv exactly when no
\* filename was supplied, and a supplied filename is the name of the file
C18_ExplicitFilenameKept ==
  (call.fn = "finalFilename" /\ result.done)
    => LET base == IF call.exportFilename \in {Undefined, ""}
                     THEN "datatable" ELSE call.exportFilename
       IN  /\ (~call.supplied)
             => result.value = <<base, "_export_", call.dateStamp, ".csv">>
           /\ call.supplied => result.value = <<call.name>>

\* C19, as claimed: without a custom render the cell of the table and the
\* cell of the virtualized row both show the value at the end of the key
\* path, and '-' exactly when a segment of the path is null or undefined
C19_RenderersAgree ==
  (call.fn = "renderCell" /\ result.done)
    => LET reached == WalkPath(call.item, SplitKey(call.key))
           shown == IF reached.t \in {"undefined", "null"} THEN "-" ELSE toString(reached)
       IN  /\ result.value.table = shown
           /\ result.value.row = shown
           /\ result.value.table = result.value.row

\* C20, as claimed: after a step that changes the page, the page size, the
\* simple filters, the advanced filters, the sort column or the sort
\* direction, the prefetch cache is empty
C20_PrefetchResetOnChange ==
  [][(\/ paginationParams' # paginationParams
      \/ columnFilters' # columnFilters
      \/ userComplexFilters' # userComplexFilters)
       => (prefetched' = {})]_vars

\* C21: resetColumns gives every column of the configuration its initial
\* state: visible unless defaultVisible is false, order its position in the
\* configuration, width the configured width
C21_ResetRestoresConfiguration ==
  [][(lastOp' = "resetColumns")
       => /\ Len(columnSettings') = Len(columns)
          /\ \A i \in DOMAIN columns :
               /\ columnSettings'[i].key = columns[i].key
               /\ columnSettings'[i].visible = (columns[i].defaultVisible # "false")
               /\ columnSettings'[i].order = i - 1
               /\ columnSettings'[i].width = columns[i].width]_vars

\* C21, the case: a reset of columns that had been changed
C21_ResetAfterChanges ==
  /\ lastOp = "resetColumns"
  /\ before.columnsChanged
  /\ columnSettings = InitialColumnSettings


\* C22, as claimed: when the first load of the list of views completes and
\* the list holds a default view, that view becomes currentView and is given
\* to onViewChange; once the list is loaded and the default was applied, no
\* reload of the list changes currentView
C22_DefaultAppliedOnceAfterLoad ==
  [][/\ (lastOp' = "ViewsLoaded" /\ viewsQuery.status # "ready" /\ defaultView' # NoView)
          => (currentView' = defaultView' /\ notified' = defaultView')
     /\ (lastOp' \in {"ViewsLoaded", "ViewsLoadFails", "ViewsRefetch"}
           /\ viewsQuery.status = "ready" /\ defaultApplied)
          => (currentView' = currentView)]_vars

\* C23, as claimed: when currentView becomes a view V by the application of
\* the default view, by a selection or by a creation, the columns the
\* DataTable shows are exactly V.visibleColumns
C23_TableShowsViewColumns ==
  [][(/\ lastOp' \in {"ViewsLoaded", "ViewsLoadFails", "ViewsEnable", "selectView",
                      "createView"}
      /\ currentView' # NoView
      /\ currentView' # currentView)
       => (VisibleKeys' = SetOf(currentView'.visibleColumns))]_vars

\* C24, as claimed: a successful delete of the current view sets currentView
\* to null, gives null to onViewChange and puts the columns handed to the
\* table back to the default set; a successful delete of another view
\* leaves currentView as it was
C24_DeleteCurrentView ==
  [][(lastOp' = "deleteView")
       => IF currentView.id = mutation.id
          THEN /\ currentView' = NoView
               /\ notified' = NoView
               /\ visibleColumnKeys' = DefaultVisibleKeys
          ELSE currentView' = currentView]_vars

\* C25: a submit of the save form calls onSubmit only with a trimmed name of
\* 1 to 50 characters and 1 to 20 columns that are all columns of the
\* entity; a submit that does not call onSubmit has stored errors
C25_OnlyValidDataSubmitted ==
  (call.fn = "handleSubmit" /\ result.done)
    => LET out == result.value
       IN  /\ out.submitted
                => /\ out.errors = {}
                   /\ out.data.name = Trim(call.name)
                   /\ Len(out.data.name) \in 1..MaxNameLength
                   /\ out.data.visibleColumns = call.columns
                   /\ Len(call.columns) \in 1..MaxVisibleColumns
                   /\ SetOf(call.columns) \subseteq AVAILABLE_COLUMNS
           /\ ~out.submitted => (out.errors # {})

\* C25, the case: a form with a name beyond the limit, or with a column the
\* entity does not have, was submitted and nothing was sent
C25_InvalidFormRejected ==
  /\ call.fn = "handleSubmit" /\ result.done
  /\ ~result.value.submitted
  /\ \/ Len(Trim(call.name)) > MaxNameLength
     \/ ~(SetOf(call.columns) \subseteq AVAILABLE_COLUMNS)

\* C26, as claimed: the update request sent from the form in mode 'edit'
\* leaves the columns of the edited view as they are
C26_EditKeepsColumns ==
  [][(lastOp' = "submitSave" /\ modal.mode = "edit")
       => \/ "visibleColumns" \notin DOMAIN mutation'.data
          \/ mutation'.data.visibleColumns = modal.viewToEdit.visibleColumns]_vars

\* C27, as claimed: once onViewChange has been called, the view it was last
\* given is currentView
C27_NotifiedIsCurrent == (notified # NeverNotified) => (notified = currentView)

C29_ClosedDropdownHasNoTerm ==
  /\ ~selector.isOpen => (selector.searchTerm = <<>>)
  /\ (selector.isOpen /\ Cardinality(selector.views) <= SearchBoxMinViews)
       => (filteredViews = selector.views)

\* C30, as claimed: whenever the mounted virtualized body renders its scroll
\* container, that is whenever it holds rows, the scroll listener is attached
\* to the container
C30_ListenerOnRenderedContainer ==
  (mounted /\ ~BodyShowsPlaceholder) => listenerAttached
====
